---- MODULE Spec2Model ----
(***************************************************************************)
(* Canonical correlation forest trainer of tonyjo/ubc_primitives.          *)
(*                                                                         *)
(*   growCCT  primitives_ubc/clfyCCFS/src/training_utils/grow_CCT.py       *)
(*   genCCF, genTree, updateForD                                           *)
(*            primitives_ubc/regCCFS/src/generate_CCF.py                   *)
(*   treeOutputsToForestPredicts                                           *)
(*            primitives_ubc/clfyCCFS/src/prediction_utils/                *)
(*            tree_output_forest_pred.py                                   *)
(*                                                                         *)
(* Feature values are small integers, so every comparison the code makes   *)
(* in floating point is exact here.  A partition point is a midpoint of    *)
(* two integers and is stored doubled (paritionPoint2).  A gini gain is a  *)
(* rational; it is stored multiplied by the positive constant GainScale(N) *)
(* of its node, which keeps order, sign and ties.                          *)
(*                                                                         *)
(* genTree calls growCCT.  The growCCT of the source is the one of         *)
(* clfyCCFS, which counts classes in 0/1 output columns; it is handed the  *)
(* outputs in that form, without the centring and scaling genCCF applies   *)
(* to a regression target (generate_CCF.py, lines 227-234).  Functions the *)
(* source imports but does not hold (fastUnique, queryIfColumnsVary,       *)
(* queryIfOnlyTwoUniqueRows, twoPointMaxMarginSplit, componentAnalysis,    *)
(* processInputData, is_numeric, sVT) are modelled from their description. *)
(* The data drawn by Init is numeric, without missing values, and the      *)
(* options leave bRCCA and the 'info' criterion off, the task weights      *)
(* non-numeric and the gain combination mode off 'max'.  A pre-rotation    *)
(* (randomRotation, pcaLite, rotationForestDataProcess, not held by the    *)
(* source) is an orthogonal matrix with entries 0, 1 and -1; rotated data  *)
(* is kept multiplied by the number of rows it was centred on.             *)
(*                                                                         *)
(* Random draws are choices of the step that takes them.  Each step        *)
(* reports its draws (rnd); a repeated build (run = 2) replays the draws   *)
(* the first build recorded on the tape.                                   *)
(***************************************************************************)
EXTENDS Integers, Sequences, FiniteSets, TLC

\* ------------------------------------------------------------------ bounds
NRows == 4
NTrees == 2
MaxMinPointsLeaf == 2
MaxD == 9

\* ---------------------------------------------------------------- constants
\* the value standing for np.nan in the feature-group vector iFeatureNum
NaN == 0
\* the value standing for -np.inf among the scaled gains
NegInf == -1000000
\* depth at which maxDepthSplit = 'stack' forces a leaf
StackDepth == 490

\* ------------------------------------------------------------------ helpers
Range(s) == {s[i] : i \in DOMAIN s}

Min2(a, b) == IF a <= b THEN a ELSE b

Max2(a, b) == IF a >= b THEN a ELSE b

SetMax(S) == CHOOSE x \in S : \A y \in S : y <= x

SetMin(S) == CHOOSE x \in S : \A y \in S : x <= y

RECURSIVE SeqSum(_)
SeqSum(s) == IF s = <<>> THEN 0 ELSE Head(s) + SeqSum(Tail(s))

RECURSIVE SortedSeq(_)
\* the elements of a finite set of integers in increasing order
SortedSeq(S) == IF S = {} THEN <<>> ELSE <<SetMin(S)>> \o SortedSeq(S \ {SetMin(S)})

RECURSIVE Fact(_)
Fact(n) == IF n <= 1 THEN 1 ELSE n * Fact(n - 1)

\* rows s[i] for the indices i of idx, in the order of idx (X[idx, :])
Take(s, idx) == [i \in 1..Len(idx) |-> s[idx[i]]]

\* rows of s whose mask entry equals b, in order (X[mask, :] and X[~mask, :])
Mask(s, mask, b) == Take(s, SortedSeq({i \in DOMAIN s : mask[i] = b}))

\* np.sum(Y, axis=0): the column sums of a matrix with K columns
ColSums(M, K) == [k \in 1..K |-> SeqSum([i \in 1..Len(M) |-> M[i][k]])]

RECURSIVE Insert(_, _)
Insert(x, s) ==
    IF s = <<>> THEN <<x>>
    ELSE IF x <= Head(s) THEN <<x>> \o s ELSE <<Head(s)>> \o Insert(x, Tail(s))

RECURSIVE NpSort(_)
\* np.sort of a vector
NpSort(s) == IF s = <<>> THEN <<>> ELSE Insert(Head(s), NpSort(Tail(s)))

\* ---------------------------------------------- array utilities (commonUtils)
\* fastUnique: the sorted distinct values of a vector
fastUnique(v) == SortedSeq(Range(v))

\* queryIfColumnsVary: whether column c of X takes two values further apart
\* than the tolerance (below the integer grid, so: two different values)
queryIfColumnsVary(XTrain, c) == \E i, j \in DOMAIN XTrain : XTrain[i][c] # XTrain[j][c]

\* queryIfOnlyTwoUniqueRows, over the columns iIn
UniqueRows(XTrain, iIn) == {[c \in iIn |-> XTrain[i][c]] : i \in DOMAIN XTrain}

queryIfOnlyTwoUniqueRows(XTrain, iIn) == Cardinality(UniqueRows(XTrain, iIn)) = 2

\* ------------------------------------------------------------- updateForD
RECURSIVE CeilSqrtFrom(_, _)
CeilSqrtFrom(D, k) == IF k * k >= D THEN k ELSE CeilSqrtFrom(D, k + 1)

\* np.ceil(np.sqrt(D))
CeilSqrt(D) == CeilSqrtFrom(D, 0)

RECURSIVE Pow2(_)
Pow2(k) == IF k = 0 THEN 1 ELSE 2 * Pow2(k - 1)

RECURSIVE CeilLog2From(_, _)
CeilLog2From(D, k) == IF Pow2(k) >= D THEN k ELSE CeilLog2From(D, k + 1)

\* np.ceil(np.log2(D) + 1)
CeilLog2Plus1(D) == CeilLog2From(D, 0) + 1

\* an option that holds either a number or a word: lambda, maxDepthSplit
Num(n) == [kind |-> "num", n |-> n]

Word(w) == [kind |-> w, n |-> 0]

is_numeric(v) == v.kind = "num"

\* Faulty variant of ResolveLambda, for the sensitivity of C15: 'log' has
\* no special case for D = 3
ResolveLambdaPlain(lam, D) ==
    CASE lam.kind = "sqrt" -> Num(CeilSqrt(D))
      [] lam.kind = "log" -> Num(CeilLog2Plus1(D))
      [] lam.kind = "all" -> Num(D)
      [] OTHER -> lam

\* lines 26-36: the value of lambda after the first if/elif chain
ResolveLambda(lam, D) ==
    CASE lam.kind = "sqrt" -> Num(CeilSqrt(D))
      [] lam.kind = "log" -> IF D = 3 THEN Num(2) ELSE Num(CeilLog2Plus1(D))
      [] lam.kind = "all" -> Num(D)
      [] OTHER -> lam

\* lines 38-48 compare int(D) <= lambda; a lambda left as text makes the
\* comparison raise TypeError
UpdateRaises(o, D) ==
    /\ ~is_numeric(ResolveLambda(o.lambda, D))
    /\ (o.bProjBoot = "default" \/ o.bBagTrees = "default")

\* a flag option holds "default", "True" or "False"
Flag(b) == IF b THEN "True" ELSE "False"

\* Faulty variant of CoversAllGroups, for the sensitivity of C16: the test
\* is lambda == D
EqualsAllGroups(D, lam) == D = lam.n

\* lines 39 and 45: int(D) <= optionsFor["lambda"]
CoversAllGroups(D, lam) == D <= lam.n

updateForD(o, D) ==
    LET lam == ResolveLambda(o.lambda, D)
    IN  [o EXCEPT !.lambda = lam,
                  !.bProjBoot = IF o.bProjBoot = "default"
                                THEN Flag(~CoversAllGroups(D, lam)) ELSE o.bProjBoot,
                  !.bBagTrees = IF o.bBagTrees = "default"
                                THEN Flag(CoversAllGroups(D, lam)) ELSE o.bBagTrees]

\* ================================================================= growCCT
\* Faulty variant of setupLeaf, for the sensitivity of C6: the node is not
\* marked as a leaf
setupLeafUnmarked(YTrain, why) ==
    [bLeaf |-> FALSE, Npoints |-> Len(YTrain), why |-> why]

\* setupLeaf: Npoints is the row count of the YTrain it is given
setupLeaf(YTrain, why) ==
    [bLeaf |-> TRUE, Npoints |-> Len(YTrain), why |-> why]

\* Faulty variant of bStop, for the sensitivity of C19: the depth is not
\* looked at
bStopSize(N, options, depth) ==
    N < Max2(2, Max2(options.minPointsForSplit, 2 * options.minPointsLeaf))

\* lines 81-85
bStop(N, options, depth) ==
    \/ N < Max2(2, Max2(options.minPointsForSplit, 2 * options.minPointsLeaf))
    \/ (is_numeric(options.maxDepthSplit) /\ depth > options.maxDepthSplit.n)
    \/ (depth > StackDepth /\ options.maxDepthSplit.kind = "stack")

\* lines 94-95: some output column is neither all 0 nor all 1
bYVaries(YTrain, K) ==
    LET sumY == ColSums(YTrain, K)
    IN  \E k \in 1..K : sumY[k] # 0 /\ sumY[k] # Len(YTrain)

\* ------------------------------------------------- feature subsampling
\* lines 103-104: the groups still selectable
CanBeSelected(iFeatureNum) == Range(iFeatureNum) \ {NaN}

\* Faulty variant of Draw, for the sensitivity of C20: one group more than
\* asked for is drawn
DrawOneMore(iCan, k, perm) ==
    LET p == SelectSeq(perm, LAMBDA g : g \in iCan)
    IN  {p[i] : i \in 1..Min2(k + 1, Len(p))}

\* np.random.choice(size, k, replace=False): the k groups of iCan that come
\* first in the drawn order perm
Draw(iCan, k, perm) ==
    LET p == SelectSeq(perm, LAMBDA g : g \in iCan)
    IN  {p[i] : i \in 1..Min2(k, Len(p))}

\* np.equal(sVT(iFeatureNum), iFeatIn): for every drawn group and every
\* column, whether the column belongs to the group
bInMat(iFeatureNum, iFeatIn) ==
    [g \in iFeatIn |-> [c \in DOMAIN iFeatureNum |-> iFeatureNum[c] = g]]

\* lines 109-110 and 132-133: the columns whose group was drawn
ColsOf(iFeatureNum, iFeatIn) ==
    {c \in DOMAIN iFeatureNum : \E g \in iFeatIn : bInMat(iFeatureNum, iFeatIn)[g][c]}

\* Faulty variant of VaryingCols, for the sensitivity of C18: every column
\* passes for varying
AllCols(XTrain, cols) == cols

\* bXVaries as the set of columns it marks, among the columns cols
VaryingCols(XTrain, cols) == {c \in cols : queryIfColumnsVary(XTrain, c)}

\* what lines 103-135 leave: the feature-group vector (written in place),
\* the array iIn and the set of its entries, the number of groups drawn and
\* the number of passes of the while loop
Subsampled(iFeatureNum, iInArray, nDrawn, nIter) ==
    [iFeatureNum |-> iFeatureNum, iIn |-> Range(iInArray), iInArray |-> iInArray,
     nDrawn |-> nDrawn, nIter |-> nIter]

\* line 127
NextLambda(size, optLambda, nSelected) == Min2(size, optLambda - nSelected)

RECURSIVE ResampleLoop(_, _, _, _, _, _, _, _, _, _, _, _)
\* lines 121-135, one call per loop test; iIn is the array built so far
ResampleLoop(XTrain, optLambda, perm, iFeatureNum, iCan, lambda_, iFeatIn, iIn, iInNew, nSelected, nDrawn, nIter) ==
    LET flat == iInNew \ VaryingCols(XTrain, iInNew)
    IN  IF flat = {} \/ lambda_ <= 0
        THEN Subsampled(iFeatureNum, iIn, nDrawn, nIter)
        ELSE LET masked  == [c \in DOMAIN iFeatureNum |->
                                IF c \in flat THEN NaN ELSE iFeatureNum[c]]
                 remains == {g \in iFeatIn :
                                \E c \in iInNew \ flat : iFeatureNum[c] = g}
                 nSel    == nSelected + Cardinality(remains)
                 iCan2   == iCan \ iFeatIn
                 lam2    == NextLambda(Cardinality(iCan2), optLambda, nSel)
                 feat2   == Draw(iCan2, lam2, perm)
                 new2    == ColsOf(masked, feat2)
             IN  IF lam2 < 1
                 THEN Subsampled(masked, iIn, nDrawn, nIter + 1)
                 ELSE ResampleLoop(XTrain, optLambda, perm, masked, iCan2, lam2, feat2,
                                   NpSort(iIn \o SortedSeq(VaryingCols(XTrain, new2))),
                                   new2, nSel, nDrawn + Cardinality(feat2), nIter + 1)

\* lines 103-135
SubsampleFeatures(XTrain, optLambda, perm, iFeatureNum) ==
    LET iCan    == CanBeSelected(iFeatureNum)
        lambda_ == Min2(Cardinality(iCan), optLambda)
        iFeatIn == Draw(iCan, lambda_, perm)
        iIn0    == ColsOf(iFeatureNum, iFeatIn)
    IN  IF VaryingCols(XTrain, iIn0) = iIn0
        THEN Subsampled(iFeatureNum, SortedSeq(iIn0), Cardinality(iFeatIn), 0)
        ELSE ResampleLoop(XTrain, optLambda, perm, iFeatureNum, iCan, lambda_, iFeatIn,
                          SortedSeq(VaryingCols(XTrain, iIn0)), iIn0, 0,
                          Cardinality(iFeatIn), 0)

\* the orders in which the selectable groups can be drawn
DrawOrders(iFeatureNum) ==
    LET S == CanBeSelected(iFeatureNum)
    IN  {p \in [1..Cardinality(S) -> S] : \A i, j \in DOMAIN p : i # j => p[i] # p[j]}

\* ------------------------------------------------ projection bootstrap
\* a Python truth test of a flag option: any non-empty text but "False"
Truthy(flag) == flag # "False"

\* np.random.randint(N, size=(N, 1)).  growCCT reads the bag through its
\* first row and through how often each row occurs, so one draw stands for
\* all draws with the same first row and the same multiset of rows
BootDraws(N) ==
    {b \in [1..N -> 1..N] : \A i \in 2..(N - 1) : b[i] <= b[i + 1]}

\* YTrainBag.shape[1].  The bootstrap index has shape (N, 1), so that
\* YTrain[iTrainThis, :] has shape (N, 1, K) (line 148); without the
\* bootstrap YTrainBag is YTrain, of shape (N, K) (line 151)
BagShape1(options, K) == IF Truthy(options.bProjBoot) THEN 1 ELSE K

\* lines 155-157.  With shape1 = 1 the class sums, of shape (1, K), are
\* compared element by element with [0, N], which takes K <= 2: the first
\* sum with 0 and the last with N
BagDegenerate(XTrainBag, YTrainBag, iIn, K, shape1) ==
    LET sumY == ColSums(YTrainBag, K)
    IN  \/ VaryingCols(XTrainBag, iIn) = {}
        \/ (shape1 > 1 /\ Cardinality({k \in 1..K : sumY[k] # 0}) < 2)
        \/ (shape1 = 1 /\ K <= 2 /\ (sumY[1] = 0 \/ sumY[K] = Len(YTrainBag)))

\* ------------------------------------------------------------ projections
RECURSIVE SumOver(_, _)
SumOver(f, S) ==
    IF S = {} THEN 0
    ELSE LET c == CHOOSE x \in S : TRUE IN f[c] + SumOver(f, S \ {c})

\* np.dot(XTrain[:, iIn], projMat[:, d]) for one row
Dot(row, dir, iIn) == SumOver([c \in iIn |-> row[c] * dir[c]], iIn)

\* twoPointMaxMarginSplit: the hyperplane half way between the two distinct
\* rows of the bag, normal to their difference; no split when both rows
\* carry the same class sums
twoPointMaxMarginSplit(XTrainBag, YTrainBag, iIn, K) ==
    LET bType1 == [i \in DOMAIN XTrainBag |->
                      \A c \in iIn : XTrainBag[i][c] = XTrainBag[1][c]]
        YLeft  == ColSums(Mask(YTrainBag, bType1, TRUE), K)
        YRight == ColSums(Mask(YTrainBag, bType1, FALSE), K)
        iType2 == SetMin({i \in DOMAIN XTrainBag : ~bType1[i]})
        rm     == [c \in iIn |-> XTrainBag[iType2][c] - XTrainBag[1][c]]
    IN  IF YLeft = YRight
        THEN [bSplit |-> FALSE, projMat |-> <<>>, partitionPoint2 |-> 0]
        ELSE [bSplit |-> TRUE, projMat |-> <<rm>>,
              partitionPoint2 |-> Dot(XTrainBag[iType2], rm, iIn) + Dot(XTrainBag[1], rm, iIn)]

\* componentAnalysis: the projection matrix is either the raw axes of iIn
\* (projection family 'Original') or a single direction (CCA, PCA, random)
\* with coefficients 1 or -1, its sign fixed by a leading coefficient of 1
AxisDirs(iIn) ==
    [j \in 1..Cardinality(iIn) |-> [c \in iIn |-> IF c = SortedSeq(iIn)[j] THEN 1 ELSE 0]]

componentAnalysis(iIn) ==
    {AxisDirs(iIn)} \cup {<<d>> : d \in {e \in [iIn -> {-1, 1}] : e[SetMin(iIn)] = 1}}

\* ------------------------------------------------------------ split search
\* the indices a Python slice [start:stop] selects in a vector of length n
PyIndex(x, n) == IF x < 0 THEN Max2(x + n, 0) ELSE Min2(x, n)

PySlice(start, stop, n) == {i \in 0..(n - 1) : PyIndex(start, n) <= i /\ i < PyIndex(stop, n)}

\* lines 296-298: the cuts forbidden by minPointsLeaf
LeafSizeForbidden(N, minPointsLeaf) ==
    PySlice(0, minPointsLeaf - 1, N) \cup PySlice((N - 1) - (minPointsLeaf - 1), N, N)

\* the factor that makes every gini gain of a node with N rows an integer
GainScale(N) == N * N * Fact(N - 1)

SumSq(v) == SeqSum([k \in DOMAIN v |-> v[k] * v[k]])

\* lines 216-276 for the cut after sorted position i (0-based): gini gain of
\* sending the i+1 smallest projected values left, times GainScale(N);
\* -inf where the two values around the cut do not differ (bUniquePoints)
MetricGain(U, YTrain, K, i) ==
    LET N     == Len(U)
        USort == NpSort(U)
        lrows == {r \in 1..N : U[r] <= USort[i + 1]}
        tot   == ColSums(YTrain, K)
        lCum  == [k \in 1..K |-> SeqSum([r \in 1..N |-> IF r \in lrows THEN YTrain[r][k] ELSE 0])]
        rCum  == [k \in 1..K |-> tot[k] - lCum[k]]
        F     == Fact(N - 1)
    IN  IF ~(USort[i + 2] > USort[i + 1]) THEN NegInf
        ELSE N * (SumSq(lCum) * (F \div (i + 1)) + SumSq(rCum) * (F \div (N - 1 - i)))
             - SumSq(tot) * F

\* Faulty variant of SplitsOf, for the sensitivity of C22: the cut is drawn
\* among all cuts that are not forbidden
SplitsOfAnyCut(U, YTrain, K, minPointsLeaf) ==
    LET N    == Len(U)
        bad  == LeafSizeForbidden(N, minPointsLeaf)
        gain == [i \in 0..(N - 2) |-> IF i \in bad THEN NegInf ELSE MetricGain(U, YTrain, K, i)]
        best == SetMax({gain[i] : i \in 0..(N - 2)})
    IN  [splitGain |-> best,
         iEqualMax |-> IF best = NegInf THEN {1} ELSE {i \in 0..(N - 2) : gain[i] # NegInf}]

\* lines 296-306 for one direction: metricGain[0:-1] after the leaf-size
\* rule, its maximum and the cuts that reach it
SplitsOf(U, YTrain, K, minPointsLeaf) ==
    LET N    == Len(U)
        bad  == LeafSizeForbidden(N, minPointsLeaf)
        gain == [i \in 0..(N - 2) |-> IF i \in bad THEN NegInf ELSE MetricGain(U, YTrain, K, i)]
        best == SetMax({gain[i] : i \in 0..(N - 2)})
    IN  [splitGain |-> best,
         iEqualMax |-> IF best = NegInf THEN {1} ELSE {i \in 0..(N - 2) : gain[i] = best}]

\* --------------------------------------------------- one call of growCCT
\* What one call of growCCT does up to its two recursive calls: the node it
\* builds (or the exception it raises), the feature-group vector as the call
\* leaves it, and the draws it took from np.random (rnd).
NoDraw == [perm |-> <<>>, boot |-> <<>>, proj |-> <<>>, iDir |-> 0, iSplit |-> 0, R |-> <<>>]

LeafOutcome(YTrain, why, iFeatureNum, rnd) ==
    [kind |-> "leaf", node |-> setupLeaf(YTrain, why), iIn |-> {},
     decisionProjection |-> <<>>, paritionPoint2 |-> 0, bLessThanTrain |-> <<>>,
     iFeatureNum |-> iFeatureNum, rnd |-> rnd, bestGain |-> 0,
     iInArray |-> <<>>, nDrawn |-> 0, nIter |-> 0]

RaiseOutcome(what, iFeatureNum, rnd) ==
    [kind |-> "error", node |-> [bLeaf |-> FALSE, Npoints |-> 0, why |-> what], iIn |-> {},
     decisionProjection |-> <<>>, paritionPoint2 |-> 0, bLessThanTrain |-> <<>>,
     iFeatureNum |-> iFeatureNum, rnd |-> rnd, bestGain |-> 0,
     iInArray |-> <<>>, nDrawn |-> 0, nIter |-> 0]

\* lines 350-357 and 358-373
InternalOutcome(N, why, iIn, dir, pp2, bLess, iFeatureNum, rnd) ==
    [kind |-> "internal", node |-> [bLeaf |-> FALSE, Npoints |-> N, why |-> why], iIn |-> iIn,
     decisionProjection |-> dir, paritionPoint2 |-> pp2, bLessThanTrain |-> bLess,
     iFeatureNum |-> iFeatureNum, rnd |-> rnd, bestGain |-> 0,
     iInArray |-> <<>>, nDrawn |-> 0, nIter |-> 0]

\* Faulty variant of LessThan, for the sensitivity of C2: the two halves of
\* the midpoint are added without the factors 0.5
LessThanSum(U, pp2) == [r \in DOMAIN U |-> U[r] <= pp2]

\* Faulty variant of NoGain, for the sensitivity of C4: a best gain of zero
\* stops the growth as well
NoGainOrZero(maxGain) == maxGain <= 0

\* lines 332-345: the partition point between sorted positions iSplit and
\* iSplit+1 of the chosen direction, and the rows at or below it
PartitionPoint2(U, iSplit) == NpSort(U)[iSplit + 1] + NpSort(U)[iSplit + 2]

LessThan(U, pp2) == [r \in DOMAIN U |-> 2 * U[r] <= pp2]

\* line 309: no split gives a non-negative gain
NoGain(maxGain) == maxGain < 0

\* lines 234-245: the criteria the split search knows
SupportedCriterion(splitCriterion) == splitCriterion \in {"gini", "info"}

\* line 253: the gains are kept per task only with numeric task weights or
\* with the combination mode 'max'; otherwise lines 255-256 sum them
GainIsGrouped(options) ==
    is_numeric(options.taskWeights) \/ options.multiTaskGainCombination = "max"

\* lines 281-293: the combination mode is looked at only for grouped gains
CombinationRaises(options) ==
    /\ GainIsGrouped(options)
    /\ options.multiTaskGainCombination \notin {"mean", "max"}

\* Faulty variant of DirChoices, for the sensitivity of C23: any direction
\* may be picked
DirChoicesAny(splitGains, dirIfEqual) ==
    CASE dirIfEqual = "rand" -> DOMAIN splitGains
      [] dirIfEqual = "first" -> {SetMin(DOMAIN splitGains)}
      [] OTHER -> {}

\* lines 314-326: the directions the tie-break policy may pick
DirChoices(splitGains, dirIfEqual) ==
    LET maxGain   == SetMax(Range(splitGains))
        iEqualMax == {j \in DOMAIN splitGains : splitGains[j] = maxGain}
    IN  CASE dirIfEqual = "rand" -> iEqualMax
          [] dirIfEqual = "first" -> {SetMin(iEqualMax)}
          [] OTHER -> {}

\* lines 177-345, the general path with the projection matrix projMat
SearchOutcomes(XTrain, YTrain, K, options, iIn, projMat, fnum, rnd) ==
    LET N      == Len(XTrain)
        UAll   == [d \in DOMAIN projMat |-> [r \in 1..N |-> Dot(XTrain[r], projMat[d], iIn)]]
        keep   == SortedSeq({d \in DOMAIN projMat : \E r, q \in 1..N : UAll[d][r] # UAll[d][q]})
        UTrain == [j \in DOMAIN keep |-> UAll[keep[j]]]
        sp     == [j \in DOMAIN keep |-> SplitsOf(UTrain[j], YTrain, K, options.minPointsLeaf)]
        gains  == [j \in DOMAIN keep |-> sp[j].splitGain]
        dirs   == DirChoices(gains, options.dirIfEqual)
        best   == SetMax(Range(gains))
    IN  IF keep = <<>> THEN {LeafOutcome(YTrain, "noDirection", fnum, rnd)}
        ELSE IF K = 1 \/ options.bSepPred THEN {RaiseOutcome("ValueError", fnum, rnd)}
        ELSE IF ~SupportedCriterion(options.splitCriterion)
        THEN {RaiseOutcome("AssertionError", fnum, rnd)}
        ELSE IF CombinationRaises(options) THEN {RaiseOutcome("AssertionError", fnum, rnd)}
        ELSE IF NoGain(best)
        THEN {[LeafOutcome(YTrain, "negativeGain", fnum, rnd) EXCEPT !.bestGain = best]}
        ELSE IF dirs = {} THEN {RaiseOutcome("AssertionError", fnum, rnd)}
        ELSE { LET pp2   == PartitionPoint2(UTrain[c[1]], c[2])
                   bLess == LessThan(UTrain[c[1]], pp2)
                   r2    == [rnd EXCEPT !.iDir = c[1], !.iSplit = c[2]]
               IN  IF (\A r \in 1..N : bLess[r]) \/ (\A r \in 1..N : ~bLess[r])
                   THEN RaiseOutcome("AssertionError", fnum, r2)
                   ELSE [InternalOutcome(N, "search", iIn, projMat[keep[c[1]]], pp2, bLess, fnum, r2)
                            EXCEPT !.bestGain = best]
               : c \in {d \in (DOMAIN keep) \X (0..(N - 2)) :
                           d[1] \in dirs /\ d[2] \in sp[d[1]].iEqualMax} }

\* lines 168-175, the two-point path
TwoPointOutcomes(XTrain, YTrain, XTrainBag, YTrainBag, K, iIn, fnum, rnd) ==
    LET tp    == twoPointMaxMarginSplit(XTrainBag, YTrainBag, iIn, K)
        U     == [r \in DOMAIN XTrain |-> Dot(XTrain[r], tp.projMat[1], iIn)]
    IN  IF ~tp.bSplit THEN {LeafOutcome(YTrain, "twoPointNoSplit", fnum, rnd)}
        ELSE {InternalOutcome(Len(XTrain), "twoPoint", iIn, tp.projMat[1], tp.partitionPoint2,
                              LessThan(U, tp.partitionPoint2), fnum, rnd)}

\* What growCCT reads from a bootstrap draw: the class sums of the bag and
\* whether the bag is degenerate (lines 155-157), whether it has only two
\* rows or two distinct rows (line 168) and, if so, the two-point split it
\* gives (line 169)
BagView(XTrain, YTrain, K, options, iIn, boot) ==
    LET XTrainBag == Take(XTrain, boot)
        YTrainBag == Take(YTrain, boot)
        sumY      == ColSums(YTrainBag, K)
    IN  IF BagDegenerate(XTrainBag, YTrainBag, iIn, K, BagShape1(options, K))
        THEN <<"degenerate", sumY>>
        ELSE IF Len(XTrainBag) = 2 \/ queryIfOnlyTwoUniqueRows(XTrainBag, iIn)
        THEN <<"two", sumY, twoPointMaxMarginSplit(XTrainBag, YTrainBag, iIn, K)>>
        ELSE <<"many", sumY>>

\* lines 145-188 for one bootstrap draw boot
BagOutcomes(XTrain, YTrain, K, options, iIn, boot, fnum, rnd) ==
    LET degenerate == BagDegenerate(Take(XTrain, boot), Take(YTrain, boot), iIn, K,
                                    BagShape1(options, K))
        XTrainBag  == IF degenerate THEN XTrain ELSE Take(XTrain, boot)
        YTrainBag  == IF degenerate THEN YTrain ELSE Take(YTrain, boot)
        r1         == [rnd EXCEPT !.boot = boot]
    IN  IF degenerate /\ ~options.bContinueProjBootDegenerate
        THEN {LeafOutcome(YTrain, "bootDegenerate", fnum, r1)}
        ELSE IF options.projections # {}
                /\ (Len(XTrainBag) = 2 \/ queryIfOnlyTwoUniqueRows(XTrainBag, iIn))
        THEN TwoPointOutcomes(XTrain, YTrain, XTrainBag, YTrainBag, K, iIn, fnum, r1)
        ELSE UNION {SearchOutcomes(XTrain, YTrain, K, options, iIn, projMat, fnum,
                                   [r1 EXCEPT !.proj = projMat])
                    : projMat \in componentAnalysis(iIn)}

\* Faulty variant of BagDraws, for the sensitivity of C5: the projection
\* sample is bootstrapped whatever bProjBoot says
BagDrawsAlways(N, options) == BootDraws(N)

\* lines 145-151: the rows of the projection sample
BagDraws(N, options) ==
    IF Truthy(options.bProjBoot) THEN BootDraws(N) ELSE {[i \in 1..N |-> i]}

\* one draw for every way a draw can look to growCCT
BagDrawsByView(XTrain, YTrain, K, options, iIn) ==
    LET seen == {<<BagView(XTrain, YTrain, K, options, iIn, b), b>>
                    : b \in BagDraws(Len(XTrain), options)}
    IN  {(CHOOSE p \in seen : p[1] = v)[2] : v \in {q[1] : q \in seen}}

\* lines 103-163 for one order perm of drawing feature groups
FeatureOutcomes(XTrain, YTrain, K, options, iFeatureNum, perm) ==
    LET fs == SubsampleFeatures(XTrain, options.lambda.n, perm, iFeatureNum)
        r0 == [NoDraw EXCEPT !.perm = perm]
        outs == IF fs.iIn = {} THEN {LeafOutcome(YTrain, "noFeature", fs.iFeatureNum, r0)}
                ELSE UNION {BagOutcomes(XTrain, YTrain, K, options, fs.iIn, boot,
                                        fs.iFeatureNum, r0)
                            : boot \in BagDrawsByView(XTrain, YTrain, K, options, fs.iIn)}
    IN  {[o EXCEPT !.nDrawn = fs.nDrawn, !.nIter = fs.nIter,
                   !.iInArray = IF o.kind = "internal" THEN fs.iInArray ELSE <<>>]
            : o \in outs}

\* line 105: np.min over (iCanBeSelected.size, options["lambda"]) has no
\* minimum of a number and a text and raises TypeError
LambdaRaises(options) == ~is_numeric(options.lambda)

growCCT(XTrain, YTrain, K, options, iFeatureNum, depth) ==
    IF bStop(Len(XTrain), options, depth)
    THEN {LeafOutcome(YTrain, "stop", iFeatureNum, NoDraw)}
    ELSE IF ~bYVaries(YTrain, K)
    THEN {LeafOutcome(YTrain, "pure", iFeatureNum, NoDraw)}
    ELSE IF LambdaRaises(options)
    THEN {RaiseOutcome("TypeError", iFeatureNum, NoDraw)}
    ELSE UNION {FeatureOutcomes(XTrain, YTrain, K, options, iFeatureNum, perm)
                : perm \in DrawOrders(iFeatureNum)}

\* =================================================================== state
VARIABLES
    X,            \* training features handed to genCCF, one row per point
    Y,            \* training outputs, one 0/1 row per point
    call,         \* the arguments of the genCCF call
    options,      \* the options dict (optionsFor), shared by all trees
    iFeatureNum,  \* the feature-group vector, one array shared by all calls
    bReg,         \* genCCF's local bReg
    bKeepTrees,   \* genCCF's local bKeepTrees
    pc,           \* where genCCF stands
    nT,           \* index of the tree being built
    iTrainThis,   \* genTree: the rows drawn for the current tree
    stack,        \* pending growCCT calls of the current tree, innermost first
    nodes,        \* nodes of the current tree in the order they were built
    forest,       \* CCF["Trees"]
    outOfBagError,
    error,        \* the exception that ended genCCF, "" when none
    starts,       \* the shared data as it stood when each genTree call started
    run,          \* 1 for a first build, 2 for a repeated build
    tape,         \* the np.random draws of the first build, in order
    first,        \* the forest of the first build
    treeOutputs,  \* treeOutputsToForestPredicts: its argument, [point][tree][column]
    CCF,          \* treeOutputsToForestPredicts: the options and class names it reads
    forestProbs,  \* the probabilities it returns
    forestPredicts, \* the predictions it returns
    outcome,      \* "pending", "returned" or the exception it raised
    cumOOb,       \* genCCF: per row, the sum of the out-of-bag predictions
    nOOb,         \* genCCF: per row, the number of predictions summed
    oobCounted,   \* genCCF: the rows whose error enters outOfBagError
    rotation      \* genTree: R and muX of the pre-rotation of the current tree

trainVars == <<X, Y, call, options, iFeatureNum, bReg, bKeepTrees, pc, nT, iTrainThis,
               stack, nodes, forest, outOfBagError, error, starts, run, tape, first>>

predVars == <<treeOutputs, CCF, forestProbs, forestPredicts, outcome>>

oobVars == <<cumOOb, nOOb, oobCounted>>

vars == <<trainVars, predVars, oobVars, rotation>>

N == Len(X)

K == Len(Y[1])

NCols == Len(X[1])

\* ------------------------------------------------------------------ genCCF
\* processInputData on an all-numeric matrix: every column is its own group
processInputData(XTrain) == [c \in 1..Len(XTrain[1]) |-> c]

ProjectionFields == {"CCA", "PCA", "CCAclasswise", "Original", "Random"}

\* line 258
Ntrain == (N * options.propTrain.num) \div options.propTrain.den

\* lines 195-207: a feature-group array with more than one entry cannot be
\* compared with None (ValueError); otherwise the input is processed anew
FeatureNumRaises == call.iFeatureNumGiven /\ NCols > 1

\* Faulty variant of SetupFeatureNum, for the sensitivity of C7: a
\* feature-group array that already exists is used as it is
KeptFeatureNum == IF iFeatureNum # <<>> THEN iFeatureNum ELSE processInputData(X)

SetupFeatureNum == processInputData(X)

\* Faulty variant of ForceReg, for the sensitivity of C9: bReg is left as
\* the caller passed it
KeepReg(b) == b

\* lines 192-193
ForceReg(b) == IF ~b THEN TRUE ELSE b

\* lines 190-258
Setup ==
    /\ pc = "setup"
    /\ IF FeatureNumRaises
       THEN /\ pc' = "failed"
            /\ error' = "ValueError"
            /\ UNCHANGED <<options, iFeatureNum, bReg, bKeepTrees>>
       ELSE IF UpdateRaises(options, Cardinality(Range(SetupFeatureNum)))
       THEN /\ pc' = "failed"
            /\ error' = "TypeError"
            /\ iFeatureNum' = SetupFeatureNum
            /\ bReg' = ForceReg(bReg)
            /\ UNCHANGED <<options, bKeepTrees>>
       ELSE /\ iFeatureNum' = SetupFeatureNum
            /\ bReg' = ForceReg(bReg)
            /\ options' = [updateForD(options, Cardinality(Range(SetupFeatureNum)))
                              EXCEPT !.mseTotal = "1",
                                     !.projections = @ \cup ProjectionFields]
            /\ bKeepTrees' = TRUE
            /\ pc' = IF call.do_parallel THEN "submit" ELSE "tree"
            /\ error' = ""
    /\ UNCHANGED <<X, Y, call, nT, iTrainThis, stack, nodes, forest, outOfBagError,
                   starts, run, tape, first>>
    /\ UNCHANGED predVars
    /\ UNCHANGED oobVars
    /\ UNCHANGED rotation

\* Faulty variant of SubmitParallel, for the sensitivity of C12: the error
\* of the task is noted and genCCF carries on to assemble its result
SubmitParallelCarriesOn ==
    /\ pc = "submit"
    /\ pc' = "collect"
    /\ error' = "NameError"
    /\ UNCHANGED <<X, Y, call, options, iFeatureNum, bReg, bKeepTrees, nT, iTrainThis,
                   stack, nodes, forest, outOfBagError, starts, run, tape, first>>
    /\ UNCHANGED predVars
    /\ UNCHANGED oobVars
    /\ UNCHANGED rotation

\* lines 262-263: gen_tree_parallel is defined nowhere in the module, so
\* building the first task raises NameError
SubmitParallel ==
    /\ pc = "submit"
    /\ pc' = "failed"
    /\ error' = "NameError"
    /\ UNCHANGED <<X, Y, call, options, iFeatureNum, bReg, bKeepTrees, nT, iTrainThis,
                   stack, nodes, forest, outOfBagError, starts, run, tape, first>>
    /\ UNCHANGED predVars
    /\ UNCHANGED oobVars
    /\ UNCHANGED rotation

\* -------------------------------------------------------------------- tape
\* a repeated build takes the draws the first build took, in the same order
Replays(rnd) == run = 2 => (tape # <<>> /\ Head(tape) = rnd)

\* the repeated build is at a point where none of its possible steps takes
\* the draw the first build took there
Diverges(rnds) == run = 2 /\ \A rnd \in rnds : ~Replays(rnd)

Taped(rnd) ==
    CASE run = 2 -> Tail(tape)
      [] call.record -> Append(tape, rnd)
      [] OTHER -> tape

\* ------------------------------------------------------------ pre-rotation
\* lines 78-92: the rotations genTree knows
RotationKinds == {"rotationForest", "random", "pca"}

\* no rotation was applied
NoRotation == [R |-> <<>>, sumX |-> <<>>, n |-> 0]

\* randomRotation, pcaLite and rotationForestDataProcess give an orthogonal
\* matrix R: here the axes as they are, the axes in reverse order, or the
\* first axis reversed
Rotations(D) ==
    {[j \in 1..D |-> [c \in 1..D |-> IF j = c THEN 1 ELSE 0]],
     [j \in 1..D |-> [c \in 1..D |-> IF j + c = D + 1 THEN 1 ELSE 0]],
     [j \in 1..D |-> [c \in 1..D |-> IF j # c THEN 0 ELSE IF j = 1 THEN -1 ELSE 1]]}

\* the matrices the rotation of the current tree is drawn from
RotationDraws ==
    IF options.treeRotation \in RotationKinds THEN Rotations(NCols) ELSE {<<>>}

\* lines 84-92: R and muX, the column means of the rows XTrain the tree is
\* grown on, kept as the column sums and the number of rows
RotationOf(XTrain, R) ==
    IF R = <<>> THEN NoRotation
    ELSE [R |-> R, sumX |-> ColSums(XTrain, Len(XTrain[1])), n |-> Len(XTrain)]

\* line 89: np.dot(XTrain - muX, R) for one row, times the number of rows
\* muX is the mean of
Rotate(x, rot) ==
    IF rot.n = 0 THEN x
    ELSE [c \in DOMAIN x |->
             SumOver([j \in DOMAIN x |-> (rot.n * x[j] - rot.sumX[j]) * rot.R[j][c]],
                     DOMAIN x)]

\* ----------------------------------------------------------------- genTree
\* Faulty variant of TreeDraws, for the sensitivity of C25: the rows are
\* drawn with replacement whatever bBagTrees says
TreeDrawsReplaced ==
    {b \in [1..Ntrain -> 1..N] : \A i \in 2..(Ntrain - 1) : b[i] <= b[i + 1]}

\* line 69: np.random.choice(all_samples, Ntrain, replace=bBagTrees); the
\* tree depends on the first row drawn and on how often each row was drawn
TreeDraws ==
    {b \in [1..Ntrain -> 1..N] :
        /\ \A i \in 2..(Ntrain - 1) : b[i] <= b[i + 1]
        /\ Truthy(options.bBagTrees) \/ \A i, j \in 1..Ntrain : i # j => b[i] # b[j]}

\* lines 66-73: the rows of the tree's sample, one draw for every sample
\* (XTrain, YTrain) the draws can give
BagRows ==
    IF Truthy(options.bBagTrees) \/ Ntrain # N
    THEN LET samples == {<<Take(X, b), Take(Y, b)>> : b \in TreeDraws}
         IN  {CHOOSE b \in TreeDraws : <<Take(X, b), Take(Y, b)>> = smp : smp \in samples}
    ELSE {[i \in 1..N |-> i]}

Shared == [X |-> X, Y |-> Y, options |-> options, iFeatureNum |-> iFeatureNum]

\* genTree lines 60-95, up to the call of growCCT at depth 0.  call.depth
\* is 0; it is the depth of the call only where the rows stand for a node
\* inside a tree grown on more rows
StartTree ==
    /\ pc = "tree"
    /\ IF Diverges({[NoDraw EXCEPT !.boot = b, !.R = R] : b \in BagRows, R \in RotationDraws})
       THEN /\ pc' = "diverged"
            /\ UNCHANGED <<tape, iTrainThis, stack, nodes, starts, rotation>>
       ELSE /\ \E b \in BagRows, R \in RotationDraws :
                /\ Replays([NoDraw EXCEPT !.boot = b, !.R = R])
                /\ tape' = Taped([NoDraw EXCEPT !.boot = b, !.R = R])
                /\ iTrainThis' = b
                /\ rotation' = RotationOf(Take(X, b), R)
                /\ stack' = <<[rows |-> [i \in 1..Len(b) |-> i], depth |-> call.depth,
                               parent |-> 0, side |-> "root"]>>
            /\ nodes' = <<>>
            /\ starts' = Append(starts, Shared)
            /\ pc' = "grow"
    /\ UNCHANGED <<X, Y, call, options, iFeatureNum, bReg, bKeepTrees, nT, forest,
                   outOfBagError, error, run, first>>
    /\ UNCHANGED predVars
    /\ UNCHANGED oobVars

\* lines 72 and 84-92: the sample the tree is grown on
TreeSample == [i \in DOMAIN iTrainThis |-> Rotate(X[iTrainThis[i]], rotation)]

\* the rows of the tree's sample that a pending call was handed
XOf(frame) == Take(TreeSample, frame.rows)

YOf(frame) == Take(Take(Y, iTrainThis), frame.rows)

\* lines 72-73 of growCCT
MseTotal(o) == IF o.mseTotal = "" THEN [o EXCEPT !.mseTotal = "var"] ELSE o

\* Faulty variant of ChildRows, for the sensitivity of C1: the right child
\* is handed all the rows of the node
ChildRowsAll(rows, bLessThanTrain, left) ==
    IF left THEN Mask(rows, bLessThanTrain, TRUE) ELSE rows

\* the row positions growCCT passes to a child: XTrain[bLessThanTrain, :]
\* for the left child, XTrain[~bLessThanTrain, :] for the right child
ChildRows(rows, bLessThanTrain, left) == Mask(rows, bLessThanTrain, left)

\* one call of growCCT: the node is built and its two recursive calls are
\* pending, the left one first (lines 356-357)
GrowNode ==
    /\ pc = "grow"
    /\ stack # <<>>
    /\ LET frame == Head(stack)
           id    == Len(nodes) + 1
           outs  == growCCT(XOf(frame), YOf(frame), K, MseTotal(options), iFeatureNum, frame.depth)
       IN  IF Diverges({o.rnd : o \in outs})
           THEN /\ pc' = "diverged"
                /\ UNCHANGED <<tape, options, iFeatureNum, stack, nodes, error>>
           ELSE \E o \in outs :
            /\ Replays(o.rnd)
            /\ tape' = Taped(o.rnd)
            /\ options' = MseTotal(options)
            /\ iFeatureNum' = o.iFeatureNum
            /\ IF o.kind = "error"
               THEN /\ pc' = "failed"
                    /\ error' = o.node.why
                    /\ UNCHANGED <<stack, nodes>>
               ELSE /\ nodes' = Append(nodes,
                          [bLeaf |-> o.node.bLeaf, Npoints |-> o.node.Npoints, why |-> o.node.why,
                           iIn |-> o.iIn, decisionProjection |-> o.decisionProjection,
                           paritionPoint2 |-> o.paritionPoint2,
                           bestGain |-> o.bestGain, fnum |-> iFeatureNum,
                           fnumAfter |-> o.iFeatureNum, iInArray |-> o.iInArray,
                           nDrawn |-> o.nDrawn, nIter |-> o.nIter,
                           rows |-> frame.rows, depth |-> frame.depth,
                           parent |-> frame.parent, side |-> frame.side])
                    /\ stack' = IF o.kind = "leaf" THEN Tail(stack)
                                ELSE << [rows |-> ChildRows(frame.rows, o.bLessThanTrain, TRUE),
                                         depth |-> frame.depth + 1, parent |-> id, side |-> "less"],
                                        [rows |-> ChildRows(frame.rows, o.bLessThanTrain, FALSE),
                                         depth |-> frame.depth + 1, parent |-> id, side |-> "greater"] >>
                                     \o Tail(stack)
                    /\ UNCHANGED <<pc, error>>
    /\ UNCHANGED <<X, Y, call, bReg, bKeepTrees, nT, iTrainThis, forest, outOfBagError,
                   starts, run, first>>
    /\ UNCHANGED predVars
    /\ UNCHANGED oobVars
    /\ UNCHANGED rotation

\* the factor that makes the mean of the outputs of any leaf an integer
MeanScale == Fact(NRows)

RECURSIVE RouteToLeaf(_, _, _)
\* predictFromCCT: the leaf a row reaches from node i, by the projection and
\* the partition point of every Internal node on its way
RouteToLeaf(tree, i, x) ==
    IF tree[i].bLeaf THEN i
    ELSE LET less == 2 * Dot(x, tree[i].decisionProjection, tree[i].iIn)
                        <= tree[i].paritionPoint2
             side == IF less THEN "less" ELSE "greater"
         IN  RouteToLeaf(tree, CHOOSE j \in DOMAIN tree :
                                   tree[j].parent = i /\ tree[j].side = side, x)

\* predictFromCCT: the row goes through the rotation stored on the tree, if
\* one is stored, and the prediction is the mean of the outputs of the leaf
\* it reaches, times MeanScale; YTrain is the sample the tree was grown on
predictFromCCT(tree, rotDetails, YTrain, x) ==
    LET leaf == tree[RouteToLeaf(tree, 1, Rotate(x, rotDetails))]
        sumY == ColSums(Take(YTrain, leaf.rows), K)
    IN  [k \in 1..K |-> sumY[k] * (MeanScale \div leaf.Npoints)]

\* lines 97-100: the tree as it stands after growCCT, without rotation
\* details, gets its out-of-bag rows and the predictions predictFromCCT
\* makes for them from the tree as it stands
OutOfBag(tree) ==
    [nodes |-> tree,
     bagged |-> Truthy(options.bBagTrees),
     iOutOfBag |-> IF Truthy(options.bBagTrees) THEN (1..N) \ Range(iTrainThis) ELSE {},
     predictsOutOfBag |->
         IF Truthy(options.bBagTrees)
         THEN [r \in (1..N) \ Range(iTrainThis) |->
                  predictFromCCT(tree, NoRotation, Take(Y, iTrainThis), X[r])]
         ELSE <<>>,
     rotDetails |-> NoRotation]

\* lines 103-104: the rotation details are stored unless treeRotation is
\* None
RotDetails == IF options.treeRotation = "None" THEN NoRotation ELSE rotation

\* line 104 reads R and muX, which lines 78-92 bind only for the three
\* rotations they know
RotationUnbound == options.treeRotation \notin RotationKinds \cup {"None"}

\* genTree lines 97-106 and genCCF lines 278-283: the finished tree, with
\* its out-of-bag rows and predictions when bagging and then its rotation
\* details, becomes forest[nT]
EndTree ==
    /\ pc = "grow"
    /\ stack = <<>>
    /\ IF RotationUnbound
       THEN /\ pc' = "failed"
            /\ error' = "UnboundLocalError"
            /\ UNCHANGED <<forest, nT>>
       ELSE /\ forest' = IF bKeepTrees
                         THEN Append(forest, [OutOfBag(nodes) EXCEPT !.rotDetails = RotDetails])
                         ELSE forest
            /\ nT' = nT + 1
            /\ pc' = IF nT + 1 < call.nTrees THEN "tree" ELSE "collect"
            /\ UNCHANGED error
    /\ UNCHANGED <<X, Y, call, options, iFeatureNum, bReg, bKeepTrees, iTrainThis, stack,
                   nodes, outOfBagError, starts, run, tape, first>>
    /\ UNCHANGED predVars
    /\ UNCHANGED oobVars
    /\ UNCHANGED rotation

\* the trees that hold row r out of bag
TreesWith(trees, r) == {t \in DOMAIN trees : r \in trees[t].iOutOfBag}

\* Faulty variant of CumOOb, for the sensitivity of C26: a row out of bag
\* for several trees keeps the prediction of the last of them only
CumOObLast(trees) ==
    [r \in 1..N |->
        [k \in 1..K |->
            IF TreesWith(trees, r) = {} THEN 0
            ELSE trees[SetMax(TreesWith(trees, r))].predictsOutOfBag[r][k]]]

\* lines 299-302: every tree adds its predictions to the rows it holds out
\* of bag
CumOOb(trees) ==
    [r \in 1..N |->
        [k \in 1..K |->
            SumOver([t \in TreesWith(trees, r) |-> trees[t].predictsOutOfBag[r][k]],
                    TreesWith(trees, r))]]

\* lines 300-303: every tree adds one to the rows it holds out of bag
NOOb(trees) == [r \in 1..N |-> Cardinality(TreesWith(trees, r))]

\* line 304: cumOOb / nOOb, which is nan (0 / 0) for a row no tree holds
\* out of bag; a prediction is kept as the pair of its sum and its count
OobPreds(cum, n) ==
    [r \in DOMAIN cum |->
        IF n[r] = 0 THEN [nan |-> TRUE, cum |-> cum[r], n |-> 0]
        ELSE [nan |-> FALSE, cum |-> cum[r], n |-> n[r]]]

\* lines 306-308: np.nanmean leaves out the rows whose error is nan
NanMeanRows(preds) == {r \in DOMAIN preds : ~preds[r].nan}

\* lines 297-311
OutOfBagError ==
    IF Truthy(options.bBagTrees) /\ bKeepTrees
    THEN IF bReg THEN "numeric" ELSE IF options.bSepPred THEN "numeric" ELSE "absent"
    ELSE "placeholder"

\* genCCF lines 285-313
Finish ==
    /\ pc = "collect"
    /\ outOfBagError' = OutOfBagError
    /\ IF Truthy(options.bBagTrees) /\ bKeepTrees
       THEN /\ cumOOb' = CumOOb(forest)
            /\ nOOb' = NOOb(forest)
            /\ oobCounted' = NanMeanRows(OobPreds(CumOOb(forest), NOOb(forest)))
       ELSE UNCHANGED oobVars
    /\ pc' = "done"
    /\ UNCHANGED <<X, Y, call, options, iFeatureNum, bReg, bKeepTrees, nT, iTrainThis,
                   stack, nodes, forest, error, starts, run, tape, first>>
    /\ UNCHANGED predVars
    /\ UNCHANGED rotation

\* A second call of genCCF with the arguments of the first: the same X and
\* Y, the same option values, no feature-group array, and a random stream
\* seeded as before.  The first forest is kept for comparison.
Rebuild ==
    /\ pc = "done"
    /\ call.record
    /\ run = 1
    /\ run' = 2
    /\ first' = forest
    /\ options' = call.options
    /\ bReg' = call.bReg
    /\ bKeepTrees' = call.bKeepTrees
    /\ pc' = "setup"
    /\ nT' = 0
    /\ iTrainThis' = <<>>
    /\ stack' = <<>>
    /\ nodes' = <<>>
    /\ forest' = <<>>
    /\ outOfBagError' = "unset"
    /\ starts' = <<>>
    /\ cumOOb' = <<>>
    /\ nOOb' = <<>>
    /\ oobCounted' = {}
    /\ rotation' = NoRotation
    /\ UNCHANGED <<X, Y, call, iFeatureNum, error, tape>>
    /\ UNCHANGED predVars

\* ------------------------------------------------------------------- Init
\* A training point is a code: its low bits are the 0/1 feature values, the
\* rest is its class.  A data set lists its points in increasing code order.
PointX(code, D) == [c \in 1..D |-> (code \div Pow2(c - 1)) % 2]

PointY(code, D, k) ==
    IF k = 1 THEN <<code \div Pow2(D)>>
    ELSE [j \in 1..k |-> IF j = (code \div Pow2(D)) + 1 THEN 1 ELSE 0]

DataSets(n, D) ==
    {s \in [1..n -> 0..(Pow2(D + 1) - 1)] : \A i \in 1..(n - 1) : s[i] <= s[i + 1]}

DefaultOptions ==
    [minPointsForSplit |-> 2, minPointsLeaf |-> 1, maxDepthSplit |-> Word("stack"),
     lambda |-> Word("all"), bProjBoot |-> "False", bBagTrees |-> "False",
     bContinueProjBootDegenerate |-> TRUE, projections |-> {"CCA"}, bSepPred |-> FALSE,
     splitCriterion |-> "gini", dirIfEqual |-> "rand", mseTotal |-> "",
     multiTaskGainCombination |-> "mean", taskWeights |-> Word("even"),
     propTrain |-> [num |-> 1, den |-> 1], treeRotation |-> "None"]

DefaultCall ==
    [nTrees |-> 1, do_parallel |-> FALSE, iFeatureNumGiven |-> FALSE, bKeepTrees |-> TRUE,
     bReg |-> FALSE, record |-> FALSE, options |-> DefaultOptions, depth |-> 0]

InitWith(codes, D, k, o, c) ==
    /\ X = [i \in DOMAIN codes |-> PointX(codes[i], D)]
    /\ Y = [i \in DOMAIN codes |-> PointY(codes[i], D, k)]
    /\ call = [c EXCEPT !.options = o]
    /\ options = o
    /\ iFeatureNum = <<>>
    /\ bReg = c.bReg
    /\ bKeepTrees = c.bKeepTrees
    /\ pc = "setup"
    /\ nT = 0
    /\ iTrainThis = <<>>
    /\ stack = <<>>
    /\ nodes = <<>>
    /\ forest = <<>>
    /\ outOfBagError = "unset"
    /\ error = ""
    /\ starts = <<>>
    /\ run = 1
    /\ tape = <<>>
    /\ first = <<>>
    /\ treeOutputs = <<>>
    /\ CCF = <<>>
    /\ forestProbs = <<>>
    /\ forestPredicts = <<>>
    /\ outcome = "idle"
    /\ cumOOb = <<>>
    /\ nOOb = <<>>
    /\ oobCounted = {}
    /\ rotation = NoRotation

\* ------------------------------------------- one tree, grown on all rows
TreeOptions ==
    {[DefaultOptions EXCEPT !.minPointsLeaf = m] : m \in 1..MaxMinPointsLeaf}
    \cup {[DefaultOptions EXCEPT !.bProjBoot = "True", !.bContinueProjBootDegenerate = d]
             : d \in BOOLEAN}
    \cup {[DefaultOptions EXCEPT !.lambda = Num(1)]}

\* the data sets of NRows points whose first point is the point 0
InitTree ==
    \E codes \in {s \in DataSets(NRows, 2) : s[1] = 0}, o \in TreeOptions :
        InitWith(codes, 2, 2, o, DefaultCall)

NextTree == Setup \/ StartTree \/ GrowNode \/ EndTree \/ Finish

SpecTree == InitTree /\ [][NextTree]_vars

\* ------------------------------------ forests, sequential and parallel
\* Data for whole builds: copies of one point, or of the point 0 and one
\* other point
ForestData ==
    {s \in DataSets(NRows - 1, 2) :
        \/ Cardinality(Range(s)) = 1
        \/ Cardinality(Range(s)) = 2 /\ s[1] = 0}

ForestOptions ==
    {[DefaultOptions EXCEPT !.bBagTrees = b, !.lambda = l]
        : b \in {"False", "True"}, l \in {Num(1), Word("all")}}

\* single builds with every combination of the flags of the call, and
\* longer builds with the flags at their defaults
ForestCalls ==
    {[DefaultCall EXCEPT !.do_parallel = p, !.bKeepTrees = k, !.bReg = r]
        : p \in BOOLEAN, k \in BOOLEAN, r \in BOOLEAN}
    \cup {[DefaultCall EXCEPT !.nTrees = n, !.do_parallel = p]
        : n \in 2..NTrees, p \in BOOLEAN}

Init ==
    \E codes \in ForestData, o \in ForestOptions, c \in ForestCalls :
        InitWith(codes, 2, 2, o, c)

Next == Setup \/ SubmitParallel \/ StartTree \/ GrowNode \/ EndTree \/ Finish

Spec == Init /\ [][Next]_vars

\* ------------------------------- a feature that separates two classes
\* One 0/1 feature and one output column equal to it, as in
\* X = [[0],[0],[1],[1]], Y = [[0],[0],[1],[1]]
SeparableData == {[i \in 1..NRows |-> IF i <= z THEN 0 ELSE 3] : z \in 1..(NRows - 1)}

SeparableOptions ==
    {[DefaultOptions EXCEPT !.bProjBoot = b, !.bBagTrees = g,
                            !.bContinueProjBootDegenerate = d, !.lambda = l]
        : b \in {"default", "False", "True"}, g \in {"default", "False", "True"},
          d \in BOOLEAN, l \in {Word("sqrt"), Word("all")}}

InitSeparable ==
    \E codes \in SeparableData, o \in SeparableOptions :
        InitWith(codes, 1, 1, o, DefaultCall)

SpecSeparable == InitSeparable /\ [][NextTree]_vars

\* ------------------------------------------------- the same build twice
\* Data of the three points 0 = (0,0), 1 = (1,0), both of the first class,
\* and 6 = (0,1) of the second class
TwiceData == {s \in DataSets(NRows - 1, 2) : s[1] = 0 /\ Range(s) \subseteq {0, 1, 6}}

\* builds of up to NTrees trees without bagging, builds of one bagged tree
TwiceBuilds ==
    {<<[DefaultOptions EXCEPT !.lambda = l], n>> : l \in {Num(1), Word("all")}, n \in 1..NTrees}
    \cup {<<[DefaultOptions EXCEPT !.lambda = l, !.bBagTrees = "True"], 1>>
             : l \in {Num(1), Word("all")}}

InitTwice ==
    \E codes \in TwiceData, b \in TwiceBuilds :
        InitWith(codes, 2, 2, b[1], [DefaultCall EXCEPT !.nTrees = b[2], !.record = TRUE])

NextTwice == Setup \/ StartTree \/ GrowNode \/ EndTree \/ Finish \/ Rebuild

SpecTwice == InitTwice /\ [][NextTwice]_vars

\* ------------------------------------------------------- three features
\* The points (0,0,0), (1,0,0), (1,1,0) and (1,1,1), each in either class:
\* a node can hold rows on which one feature varies and the others do not
StairData ==
    {s \in DataSets(NRows, 3) : s[1] = 0 /\ \A i \in DOMAIN s : s[i] % 8 \in {0, 1, 3, 7}}

StairOptions == {[DefaultOptions EXCEPT !.lambda = l] : l \in {Num(1), Num(2), Word("all")}}

InitStair ==
    \E codes \in StairData, o \in StairOptions : InitWith(codes, 3, 2, o, DefaultCall)

SpecStair == InitStair /\ [][NextTree]_vars

\* ------------------------------------------------------------ deep nodes
\* The four points (0,0), (1,0), (0,1), (1,1), each in either class, grown
\* from depth 0 or as the rows of a node at depth StackDepth - 1
DeepData ==
    {s \in DataSets(NRows, 2) : s[1] = 0 /\ Cardinality({s[i] % 4 : i \in DOMAIN s}) = 4}

DeepOptions ==
    {[DefaultOptions EXCEPT !.maxDepthSplit = m] : m \in {Num(0), Num(1), Word("stack")}}

InitDeep ==
    \E codes \in DeepData, o \in DeepOptions, d \in {0, StackDepth - 1} :
        InitWith(codes, 2, 2, o, [DefaultCall EXCEPT !.depth = d])

SpecDeep == InitDeep /\ [][NextTree]_vars

\* ------------------------------------------ the options of a build, set up
\* genCCF up to its loop over the trees, for 1 to MaxD feature groups
SetupOptions ==
    {[DefaultOptions EXCEPT !.lambda = l, !.bProjBoot = b, !.bBagTrees = g]
        : l \in {Word("sqrt"), Word("log"), Word("all")} \cup {Num(n) : n \in 1..(MaxD + 1)},
          b \in {"default", "False", "True"}, g \in {"default", "False", "True"}}

InitSetup ==
    \E D \in 1..MaxD, o \in SetupOptions : InitWith(<<0>>, D, 2, o, DefaultCall)

NextSetup == Setup

SpecSetup == InitSetup /\ [][NextSetup]_vars

\* ------------------------------------------------ options out of range
\* One tree grown with one option set to a value the code does not know
InvalidOptions ==
    {[DefaultOptions EXCEPT !.splitCriterion = "bogus"],
     [DefaultOptions EXCEPT !.dirIfEqual = "bogus"],
     [DefaultOptions EXCEPT !.multiTaskGainCombination = "bogus"],
     [DefaultOptions EXCEPT !.lambda = Word("bogus")],
     [DefaultOptions EXCEPT !.lambda = Word("bogus"), !.bProjBoot = "default"],
     [DefaultOptions EXCEPT !.lambda = Word("bogus"), !.bBagTrees = "default"]}

InitInvalid ==
    \E codes \in {s \in DataSets(NRows, 2) : s[1] = 0}, o \in InvalidOptions :
        InitWith(codes, 2, 2, o, DefaultCall)

SpecInvalid == InitInvalid /\ [][NextTree]_vars

\* ------------------------------------------------ projection bootstrap
\* One tree grown with the projection bootstrap on, its draws written down
BootOptions ==
    {[DefaultOptions EXCEPT !.bProjBoot = "True", !.bContinueProjBootDegenerate = d]
        : d \in BOOLEAN}

InitBoot ==
    \E codes \in {s \in DataSets(NRows - 1, 2) : s[1] = 0}, o \in BootOptions :
        InitWith(codes, 2, 2, o, [DefaultCall EXCEPT !.record = TRUE])

SpecBoot == InitBoot /\ [][NextTree]_vars

\* ------------------------------------------------------------ tied gains
\* One tree grown under either tie-break policy, its draws written down
TieOptions == {[DefaultOptions EXCEPT !.dirIfEqual = p] : p \in {"first", "rand"}}

InitTies ==
    \E codes \in {s \in DataSets(NRows, 2) : s[1] = 0}, o \in TieOptions :
        InitWith(codes, 2, 2, o, [DefaultCall EXCEPT !.record = TRUE])

SpecTies == InitTies /\ [][NextTree]_vars

\* ------------------------------------------------------- leaf-size limits
\* One tree grown with minPointsLeaf from 0 on, its draws written down
CutOptions ==
    {[DefaultOptions EXCEPT !.minPointsLeaf = m] : m \in 0..MaxMinPointsLeaf}

InitCuts ==
    \E codes \in {s \in DataSets(NRows, 2) : s[1] = 0}, o \in CutOptions :
        InitWith(codes, 2, 2, o, [DefaultCall EXCEPT !.record = TRUE])

SpecCuts == InitCuts /\ [][NextTree]_vars

\* ---------------------------------------------------------- bagged trees
\* Forests of up to NTrees trees, each grown on all rows or on half of
\* them, drawn with or without replacement
BagData == {s \in DataSets(NRows, 2) : s[1] = 0 /\ Range(s) \subseteq {0, 1, 6}}

BagOptions ==
    {[DefaultOptions EXCEPT !.bBagTrees = b, !.propTrain = [num |-> 1, den |-> d]]
        : b \in {"False", "True"}, d \in 1..2}

InitBag ==
    \E codes \in BagData, o \in BagOptions, n \in 1..NTrees :
        InitWith(codes, 2, 2, o, [DefaultCall EXCEPT !.nTrees = n])

SpecBag == InitBag /\ [][NextTree]_vars

\* ------------------------------- recorded builds, sequential and parallel
\* the builds of the section above, through either path of genCCF, with
\* the draws of every tree on the tape
InitBoth ==
    \E codes \in TwiceData, b \in TwiceBuilds, p \in BOOLEAN :
        InitWith(codes, 2, 2, b[1],
                 [DefaultCall EXCEPT !.nTrees = b[2], !.record = TRUE, !.do_parallel = p])

SpecBoth == InitBoth /\ [][Next]_vars

\* ------------------------------------------------ builds with a pre-rotation
\* one tree, bagged or not, under each value of treeRotation: None, the
\* three rotations genTree knows, and the text 'none'
RotData == {s \in DataSets(NRows - 1, 2) : s[1] = 0 /\ Range(s) \subseteq {0, 1, 2, 6}}

RotOptions ==
    {[DefaultOptions EXCEPT !.bBagTrees = b, !.treeRotation = t]
        : b \in {"False", "True"}, t \in RotationKinds \cup {"None", "none"}}

InitRot ==
    \E codes \in RotData, o \in RotOptions :
        InitWith(codes, 2, 2, o, DefaultCall)

SpecRot == InitRot /\ [][NextTree]_vars

\* ============================================ treeOutputsToForestPredicts
\* tree_output_forest_pred.py.  treeOutputs[p][t][c] is the output of tree t
\* for point p in column c, here 0 or 1.  A mean over the T trees is stored
\* multiplied by T (forestProbs), so that mean > 0.5 reads 2 * sum > T.

\* line 18, np.mean(treeOutputs, axis=1), times the number of trees
MeanOverTrees(outputs) ==
    [p \in DOMAIN outputs |->
        [c \in DOMAIN outputs[p][1] |->
            SeqSum([t \in DOMAIN outputs[p] |-> outputs[p][t][c]])]]

\* line 18, np.squeeze: the axes of length 1 are dropped from the shape
\* (points, columns); the values stay
SqueezedShape(P, C) == SelectSeq(<<P, C>>, LAMBDA d : d # 1)

\* Faulty variant of AboveHalf, for the sensitivity of C13: a mean of 0.5
\* predicts true
AtLeastHalf(sum, T) == 2 * sum >= T

\* line 21: forestProbs > 0.5
AboveHalf(sum, T) == 2 * sum > T

\* forestProbs[:, start:stop], as the 0-based columns it selects, in order
SliceCols(start, stop, C) == SortedSeq(PySlice(start, stop, C))

\* np.argmax over the columns cols of a row: the position in cols, 0-based,
\* of the first column holding the largest value
ArgMax(row, cols) ==
    LET m == SetMax({row[cols[j] + 1] : j \in DOMAIN cols})
    IN  SetMin({j \in DOMAIN cols : row[cols[j] + 1] = m}) - 1

\* lines 44-46 and 74-76: the columns read for task nO (0-based) when
\* task_ids holds several entries
TaskCols(ids, nO, C) ==
    IF nO < Len(ids) - 1
    THEN SliceCols(ids[nO + 1], ids[nO + 2] - 1, C)
    ELSE SliceCols(ids[Len(ids)], C, C)

Raised(what) == [outcome |-> what, v |-> <<>>]

Returned(v) == [outcome |-> "returned", v |-> v]

\* lines 27-46 and 57-76: the class index per point and task
TaskArgMax(task_ids, probs, shape, C) ==
    LET single == (task_ids.kind = "int" /\ task_ids.n = 1)
                    \/ (task_ids.kind = "array" /\ Len(task_ids.ids) = 1)
        nTasks == Len(task_ids.ids)
    IN  IF task_ids.kind = "int" /\ task_ids.n # 1 THEN Raised("AssertionError")
        ELSE IF single
        THEN IF Len(shape) < 2 THEN Raised("AxisError")
             ELSE Returned([p \in DOMAIN probs |-> <<ArgMax(probs[p], SliceCols(0, C, C))>>])
        ELSE IF Len(shape) < 2 THEN Raised("IndexError")
        ELSE IF \E nO \in 0..(nTasks - 1) : TaskCols(task_ids.ids, nO, C) = <<>>
        THEN Raised("ValueError")
        ELSE Returned([p \in DOMAIN probs |->
                          [k \in 1..nTasks |->
                              ArgMax(probs[p], TaskCols(task_ids.ids, k - 1, C))]])

\* lines 47-53: one row of the one-hot matrix per point, set from the first
\* column of the class indices, then enc.inverse_transform
OneHotLabels(classNames, idx) ==
    IF \E p \in DOMAIN idx : idx[p][1] + 1 > Len(classNames.names)
    THEN Raised("IndexError")
    ELSE Returned([p \in DOMAIN idx |-> <<classNames.names[idx[p][1] + 1]>>])

\* lines 77-88: CCF["classNames"][forestPredicts]
ArrayLabels(classNames, idx) ==
    IF \E p \in DOMAIN idx : \E k \in DOMAIN idx[p] : idx[p][k] + 1 > Len(classNames.names)
    THEN Raised("IndexError")
    ELSE Returned([p \in DOMAIN idx |->
                      [k \in DOMAIN idx[p] |-> classNames.names[idx[p][k] + 1]]])

treeOutputsToForestPredicts(ccf, outputs) ==
    LET P     == Len(outputs)
        T     == Len(outputs[1])
        C     == Len(outputs[1][1])
        probs == MeanOverTrees(outputs)
        idx   == TaskArgMax(ccf.task_ids, probs, SqueezedShape(P, C), C)
    IN  IF ccf.bSepPred
        THEN [forestProbs |-> probs,
              ret |-> Returned([p \in 1..P |-> [c \in 1..C |-> AboveHalf(probs[p][c], T)]])]
        ELSE IF idx.outcome # "returned" THEN [forestProbs |-> probs, ret |-> idx]
        ELSE [forestProbs |-> probs,
              ret |-> IF ccf.classNames.kind = "onehot"
                      THEN OneHotLabels(ccf.classNames, idx.v)
                      ELSE ArrayLabels(ccf.classNames, idx.v)]

\* one call of treeOutputsToForestPredicts
Predict ==
    /\ outcome = "pending"
    /\ LET r == treeOutputsToForestPredicts(CCF, treeOutputs)
       IN  /\ forestProbs' = r.forestProbs
           /\ forestPredicts' = r.ret.v
           /\ outcome' = r.ret.outcome
    /\ UNCHANGED <<treeOutputs, CCF>>
    /\ UNCHANGED trainVars
    /\ UNCHANGED oobVars
    /\ UNCHANGED rotation

\* no forest is being built
TrainerIdle ==
    /\ X = <<>>
    /\ Y = <<>>
    /\ call = DefaultCall
    /\ options = DefaultOptions
    /\ iFeatureNum = <<>>
    /\ bReg = TRUE
    /\ bKeepTrees = TRUE
    /\ pc = "idle"
    /\ nT = 0
    /\ iTrainThis = <<>>
    /\ stack = <<>>
    /\ nodes = <<>>
    /\ forest = <<>>
    /\ outOfBagError = "unset"
    /\ error = ""
    /\ starts = <<>>
    /\ run = 1
    /\ tape = <<>>
    /\ first = <<>>
    /\ cumOOb = <<>>
    /\ nOOb = <<>>
    /\ oobCounted = {}
    /\ rotation = NoRotation

\* Outputs of up to NTrees trees for one or two points.  The function reads
\* the trees of a point and column only through their sum, so the outputs
\* are listed with the trees in increasing order of output.
TreeOutputs(P, C) ==
    UNION {{[p \in 1..P |-> [t \in 1..T |-> [c \in 1..C |->
                IF t > T - ones[p][c] THEN 1 ELSE 0]]]
               : ones \in [1..P -> [1..C -> 0..T]]}
           : T \in 1..NTrees}

ClassNames(C) ==
    {[kind |-> k, names |-> [i \in 1..C |-> i + 100]] : k \in {"onehot", "array"}}

\* the columns of the outputs and the 0-based column at which each task
\* starts (grow_CCT.py, lines 261-266, reads task_ids[1:] - 1 as the last
\* column of a task)
Layouts ==
    {[C |-> 2, task_ids |-> [kind |-> "int", n |-> 1, ids |-> <<>>]],
     [C |-> 2, task_ids |-> [kind |-> "int", n |-> 2, ids |-> <<>>]],
     [C |-> 1, task_ids |-> [kind |-> "array", n |-> 0, ids |-> <<0>>]],
     [C |-> 3, task_ids |-> [kind |-> "array", n |-> 0, ids |-> <<0>>]],
     [C |-> 3, task_ids |-> [kind |-> "array", n |-> 0, ids |-> <<0, 2>>]],
     [C |-> 3, task_ids |-> [kind |-> "array", n |-> 0, ids |-> <<0, 1>>]]}

InitPredict ==
    /\ TrainerIdle
    /\ \E l \in Layouts, P \in 1..2 :
           /\ treeOutputs \in TreeOutputs(P, l.C)
           /\ CCF \in {[bSepPred |-> b, task_ids |-> l.task_ids, classNames |-> cn]
                          : b \in BOOLEAN, cn \in ClassNames(l.C)}
    /\ forestProbs = <<>>
    /\ forestPredicts = <<>>
    /\ outcome = "pending"

NextPredict == Predict

SpecPredict == InitPredict /\ [][NextPredict]_vars

\* ================================================================== claims
\* the part of the training data a node of the tree under construction holds
NodeX(n) == Take(TreeSample, n.rows)

NodeY(n) == Take(Take(Y, iTrainThis), n.rows)

Children(i, side) == {j \in DOMAIN nodes : nodes[j].parent = i /\ nodes[j].side = side}

Leaves(t) == {j \in DOMAIN t : t[j].bLeaf}

NpointsOf(t, S) == SumOver([j \in DOMAIN t |-> t[j].Npoints], S)

TreeFinished == pc = "grow" /\ stack = <<>> /\ nodes # <<>>

\* C1: every Leaf's Npoints is the number of training rows routed to it, the
\* Npoints of the two children of an Internal node sum to the node's own
\* Npoints, and the leaf counts of a finished tree sum to the row count
\* given to the root.
C1_NpointsAddUp ==
    /\ \A i \in DOMAIN nodes :
          /\ nodes[i].bLeaf => nodes[i].Npoints = Len(nodes[i].rows)
          /\ \A l \in Children(i, "less"), g \in Children(i, "greater") :
                nodes[l].Npoints + nodes[g].Npoints = nodes[i].Npoints
    /\ TreeFinished => NpointsOf(nodes, Leaves(nodes)) = Len(iTrainThis)

\* a finished tree with two Internal nodes
C1_Witness ==
    /\ TreeFinished
    /\ Cardinality(DOMAIN nodes \ Leaves(nodes)) >= 2

\* the rows handed to the children of Internal nodes: children already built
\* and children whose call is pending
Handed ==
    {[parent |-> nodes[j].parent, n |-> Len(nodes[j].rows)] : j \in {k \in DOMAIN nodes : nodes[k].parent # 0}}
    \cup {[parent |-> stack[j].parent, n |-> Len(stack[j].rows)]
             : j \in {k \in DOMAIN stack : stack[k].parent # 0}}

\* C2: every Internal node, split by the two-point path or by the split
\* search, routes at least one of its rows to the left child and at least
\* one to the right child.
C2_BothSidesNonEmpty ==
    \A h \in Handed : h.n >= 1 /\ h.n < nodes[h.parent].Npoints

\* a finished tree with a node split by the two-point path and a node split
\* by the split search
C2_Witness ==
    /\ TreeFinished
    /\ \E i, j \in DOMAIN nodes : nodes[i].why = "twoPoint" /\ nodes[j].why = "search"

\* C3: both children of every Internal node hold at least minPointsLeaf
\* training rows.
C3_MinPointsLeaf ==
    \A h \in Handed : h.n >= options.minPointsLeaf

\* the stopping rule, the variation of the outputs and the variation of the
\* columns that may still be selected, for a node of the tree
Stops(n) == bStop(n.Npoints, options, n.depth)

YVaries(n) == bYVaries(NodeY(n), K)

NoColumnVaries(n) ==
    VaryingCols(NodeX(n), ColsOf(n.fnum, CanBeSelected(n.fnum))) = {}

Grown == stack = <<>> /\ nodes # <<>> /\ pc \in {"grow", "collect", "done"}

\* the tree is one Internal node that cuts at pp2 / 2, with two pure Leaves
SplitAt(pp2) ==
    /\ Len(nodes) = 3
    /\ ~nodes[1].bLeaf
    /\ nodes[1].paritionPoint2 = pp2
    /\ \A j \in {2, 3} : nodes[j].bLeaf /\ nodes[j].parent = 1 /\ ~YVaries(nodes[j])

SingleRow == Cardinality(Range(X)) = 1 /\ Cardinality(Range(Y)) = 1

SingleLeaf(t) == Len(t) = 1 /\ t[1].bLeaf

\* C6: for a training set that is copies of a single row, every tree of the
\* forest is a single Leaf at the root, the build raises no exception and
\* ends with a forest of nTrees trees.
C6_SingleRowSingleLeaf ==
    SingleRow =>
        /\ error = ""
        /\ pc # "failed"
        /\ \A k \in DOMAIN forest : SingleLeaf(forest[k].nodes)
        /\ Len(nodes) <= 1
        /\ nodes # <<>> => SingleLeaf(nodes)

\* what the forest keeps of a tree: its structure, iIn, decision projection,
\* partition point and the rows of each node
Content(t) ==
    [j \in DOMAIN t.nodes |->
        [bLeaf |-> t.nodes[j].bLeaf, Npoints |-> t.nodes[j].Npoints,
         iIn |-> t.nodes[j].iIn, decisionProjection |-> t.nodes[j].decisionProjection,
         paritionPoint2 |-> t.nodes[j].paritionPoint2, parent |-> t.nodes[j].parent,
         side |-> t.nodes[j].side, rows |-> t.nodes[j].rows]]

\* C7: a second sequential build on the same data with the same options
\* and the same random draws takes every draw where the first build took
\* it and produces, at every tree index, the tree of the first build.
C7_SameForest ==
    run = 2 =>
        /\ pc # "diverged"
        /\ Len(forest) <= Len(first)
        /\ \A k \in DOMAIN forest :
              /\ Content(forest[k]) = Content(first[k])
              /\ forest[k].iOutOfBag = first[k].iOutOfBag
        /\ pc = "done" => Len(forest) = Len(first) /\ tape = <<>>

\* a second build of NTrees trees has ended, with a tree that has a split
C7_Witness ==
    /\ run = 2
    /\ pc = "done"
    /\ Len(forest) = NTrees
    /\ \E k \in DOMAIN forest : Len(forest[k].nodes) > 1

\* C8: a parallel build ends with a forest of exactly nTrees trees, the
\* tree of the task submitted with position k at index k.
C8_ParallelForest ==
    (call.do_parallel /\ pc \in {"done", "failed"}) =>
        /\ pc = "done"
        /\ Len(forest) = call.nTrees

C10_SharedUnchanged ==
    \A k \in 1..(Len(starts) - 1) : starts[k + 1] = starts[k]

\* C11: a build whose split criterion, tie-break policy (dirIfEqual) or
\* multi-task gain combination mode is not one the code supports is rejected
\* before any node is grown: it builds no node, keeps no tree and never
\* completes.
InvalidOption(o) ==
    \/ ~SupportedCriterion(o.splitCriterion)
    \/ o.dirIfEqual \notin {"rand", "first"}
    \/ o.multiTaskGainCombination \notin {"mean", "max"}

C11_InvalidOptionRejected ==
    InvalidOption(call.options) => (nodes = <<>> /\ forest = <<>> /\ pc # "done")

NTreesOf(outputs) == Len(outputs[1])

C13_MeanAndThreshold ==
    (outcome = "returned") =>
        /\ \A p \in DOMAIN treeOutputs : \A c \in DOMAIN treeOutputs[p][1] :
               forestProbs[p][c]
                   = Cardinality({t \in DOMAIN treeOutputs[p] : treeOutputs[p][t][c] = 1})
        /\ CCF.bSepPred =>
               \A p \in DOMAIN treeOutputs : \A c \in DOMAIN treeOutputs[p][1] :
                   forestPredicts[p][c] = (2 * forestProbs[p][c] > NTreesOf(treeOutputs))

\* a separated prediction over two trees that disagree: the mean is 0.5 and
\* the output is predicted false
C13_Witness ==
    /\ outcome = "returned"
    /\ CCF.bSepPred
    /\ NTreesOf(treeOutputs) = 2
    /\ \E p \in DOMAIN treeOutputs : \E c \in DOMAIN treeOutputs[p][1] :
           /\ treeOutputs[p][1][c] # treeOutputs[p][2][c]
           /\ forestPredicts[p][c] = FALSE

\* C14: with bSepPred off and several tasks, the blocks of columns read for
\* the tasks partition the probability columns, and the class predicted for
\* each task is the name of a column holding the largest averaged
\* probability among all columns of that task, from the column where the
\* task starts up to the column before the next task starts.
SeveralTasks == CCF.task_ids.kind = "array" /\ Len(CCF.task_ids.ids) > 1

NColsOf(outputs) == Len(outputs[1][1])

\* the 0-based columns of task k (1-based) as the task boundaries give them
Block(k) ==
    LET ids == CCF.task_ids.ids
    IN  {c \in 0..(NColsOf(treeOutputs) - 1) :
            /\ ids[k] <= c
            /\ k < Len(ids) => c < ids[k + 1]}

BestNames(p, k) ==
    LET m == SetMax({forestProbs[p][c + 1] : c \in Block(k)})
    IN  {CCF.classNames.names[c - CCF.task_ids.ids[k] + 1]
            : c \in {d \in Block(k) : forestProbs[p][d + 1] = m}}

C14_TaskArgMax ==
    (outcome = "returned" /\ ~CCF.bSepPred /\ SeveralTasks) =>
        LET ids == CCF.task_ids.ids
            C   == NColsOf(treeOutputs)
        IN  /\ \A c \in 0..(C - 1) :
                   Cardinality({k \in DOMAIN ids : c \in Range(TaskCols(ids, k - 1, C))}) = 1
            /\ \A p \in DOMAIN treeOutputs :
                   /\ Len(forestPredicts[p]) = Len(ids)
                   /\ \A k \in DOMAIN ids : forestPredicts[p][k] \in BestNames(p, k)

\* C15: updateForD resolves lambda from the number D of feature groups:
\* 'sqrt' gives ceil(sqrt(D)), 'log' gives ceil(log2(D) + 1) except that
\* D = 3 gives 2, 'all' gives D, a number stays as it is; a value resolved
\* from 'sqrt', 'log' or 'all' is an integer between 1 and D.
SetupDone == pc \in {"tree", "submit"}

C15_LambdaResolved ==
    SetupDone =>
        LET D    == NCols
            asked == call.options.lambda
            n    == options.lambda.n
        IN  /\ is_numeric(options.lambda)
            /\ asked.kind = "sqrt" => (n * n >= D /\ (n - 1) * (n - 1) < D)
            /\ (asked.kind = "log" /\ D = 3) => n = 2
            /\ (asked.kind = "log" /\ D # 3) =>
                   (Pow2(n - 1) >= D /\ (n = 1 \/ Pow2(n - 2) < D))
            /\ asked.kind = "all" => n = D
            /\ is_numeric(asked) => options.lambda = asked
            /\ asked.kind \in {"sqrt", "log", "all"} => (1 <= n /\ n <= D)

\* 'log' has been resolved for three feature groups
C15_Witness ==
    /\ SetupDone
    /\ call.options.lambda.kind = "log"
    /\ NCols = 3
    /\ options.lambda = Num(2)

\* C16, as stated: flags left at 'default' are resolved from whether
\* lambda == D: projection bootstrapping is on unless lambda == D, tree
\* bagging is on exactly when lambda == D.
BothDefault == call.options.bProjBoot = "default" /\ call.options.bBagTrees = "default"

InvalidLambda(o) == o.lambda.kind \notin {"num", "sqrt", "log", "all"}

C17_InvalidLambdaNotFatal == InvalidLambda(call.options) => pc # "failed"

\* C18: for every Internal node, every entry of iIn is a column of X that
\* varies over the node's own rows, iIn holds no column twice, and a column
\* that was NaN-masked at a node is in the iIn of none of its descendants.
RECURSIVE Ancestors(_)
Ancestors(i) ==
    IF nodes[i].parent = 0 THEN {}
    ELSE {nodes[i].parent} \cup Ancestors(nodes[i].parent)

MaskedAt(a) ==
    {c \in DOMAIN nodes[a].fnum : nodes[a].fnum[c] # NaN /\ nodes[a].fnumAfter[c] = NaN}

C18_iInVaries ==
    \A i \in DOMAIN nodes :
        ~nodes[i].bLeaf =>
            LET arr == nodes[i].iInArray
            IN  /\ arr # <<>>
                /\ \A j \in DOMAIN arr :
                       /\ arr[j] \in 1..NCols
                       /\ queryIfColumnsVary(NodeX(nodes[i]), arr[j])
                /\ \A j, k \in DOMAIN arr : j # k => arr[j] # arr[k]
                /\ \A a \in Ancestors(i) : MaskedAt(a) \cap Range(arr) = {}

\* an Internal node below a node that masked a column, itself selecting
\* after passing over a column that does not vary on its rows
C18_Witness ==
    \E i \in DOMAIN nodes :
        /\ ~nodes[i].bLeaf
        /\ \E a \in Ancestors(i) : MaskedAt(a) # {}
        /\ MaskedAt(i) # {}

\* C20, as stated: the resampling loop makes at most as many passes as
\* there were selectable groups, the groups drawn for a node number at most
\* options.lambda, and a node for which no varying column was selected is a
\* Leaf.
Visited(n) == n.why \notin {"stop", "pure"}

Selectable(n) == Cardinality(CanBeSelected(n.fnum))

KeptGroups(n) == {n.fnum[c] : c \in n.iIn}

C20_DrawnWithinLambda ==
    \A i \in DOMAIN nodes :
        Visited(nodes[i]) =>
            /\ nodes[i].nIter <= Selectable(nodes[i])
            /\ nodes[i].nDrawn <= options.lambda.n
            /\ nodes[i].iIn = {} => nodes[i].bLeaf

\* C20, amended: the resampling loop makes at most as many passes as there
\* were selectable groups, no group is drawn twice, the drawn groups that
\* keep a varying column number at most options.lambda, and a node for
\* which no varying column was selected is a Leaf.
C20_KeptWithinLambda ==
    \A i \in DOMAIN nodes :
        Visited(nodes[i]) =>
            /\ nodes[i].nIter <= Selectable(nodes[i])
            /\ nodes[i].nDrawn <= Selectable(nodes[i])
            /\ Cardinality(KeptGroups(nodes[i])) <= options.lambda.n
            /\ nodes[i].iIn = {} => nodes[i].bLeaf

\* a node that drew more groups than lambda and kept lambda of them, and a
\* node that drew every group and is a Leaf
C20_Witness ==
    /\ \E i \in DOMAIN nodes :
           /\ nodes[i].nDrawn > options.lambda.n
           /\ nodes[i].nIter >= 2
           /\ Cardinality(KeptGroups(nodes[i])) = options.lambda.n
    /\ \E i \in DOMAIN nodes :
           /\ nodes[i].why = "noFeature"
           /\ nodes[i].nIter >= 1

\* C19: with a numeric maxDepthSplit every node at a depth above it is a
\* Leaf; with maxDepthSplit = 'stack' every node at depth above 490 is a
\* Leaf and no node, built or pending, lies deeper than 491.
C19_DepthLimits ==
    /\ \A i \in DOMAIN nodes :
           /\ (is_numeric(options.maxDepthSplit)
                  /\ nodes[i].depth > options.maxDepthSplit.n) => nodes[i].bLeaf
           /\ (options.maxDepthSplit.kind = "stack" /\ nodes[i].depth > 490)
                  => nodes[i].bLeaf
           /\ options.maxDepthSplit.kind = "stack" => nodes[i].depth <= 491
    /\ \A k \in DOMAIN stack :
           options.maxDepthSplit.kind = "stack" => stack[k].depth <= 491

\* a node at depth 491 whose rows differ in features and in class and that
\* is a Leaf, below Internal nodes at depths 489 and 490
C19_Witness ==
    /\ options.maxDepthSplit.kind = "stack"
    /\ \E i \in DOMAIN nodes :
           /\ nodes[i].depth = 491
           /\ nodes[i].bLeaf
           /\ nodes[i].Npoints >= 2
           /\ bYVaries(NodeY(nodes[i]), K)
           /\ VaryingCols(NodeX(nodes[i]), 1..NCols) # {}
           /\ ~nodes[nodes[i].parent].bLeaf
           /\ nodes[nodes[i].parent].depth = 490

\* the projection bootstrap sample drawn for node i of the tree under
\* construction: the draws of the build are written down in order, the
\* rows of the tree first and then one entry for every node
BootOf(i) == tape[i + 1].boot

BagX(i) == Take(NodeX(nodes[i]), BootOf(i))

BagY(i) == Take(NodeY(nodes[i]), BootOf(i))

\* the bag is degenerate in the stated sense: no selected column varies in
\* it, or Y has several columns and fewer than two of them have a non-zero
\* count in it, or Y has one column that is all 0 or all 1 in it
StatedDegenerate(i) ==
    LET sumY == ColSums(BagY(i), K)
    IN  \/ VaryingCols(BagX(i), nodes[i].iIn) = {}
        \/ K > 1 /\ Cardinality({k \in 1..K : sumY[k] # 0}) < 2
        \/ K = 1 /\ sumY[1] \in {0, Len(BootOf(i))}

\* the node takes the two-point path exactly when its own rows are two rows
\* or two distinct rows, and its projection and partition point are then
\* those of its own rows
ProjectionFromNode(n) ==
    LET two == Len(n.rows) = 2 \/ queryIfOnlyTwoUniqueRows(NodeX(n), n.iIn)
        tp  == twoPointMaxMarginSplit(NodeX(n), NodeY(n), n.iIn, K)
    IN  /\ n.why = "twoPoint" <=> two
        /\ two => /\ tp.bSplit
                  /\ n.decisionProjection = tp.projMat[1]
                  /\ n.paritionPoint2 = tp.partitionPoint2

\* the left child holds the rows of the node at or below the partition
\* point, the right child the other rows of the node
ChildrenFromNode(i) ==
    LET n    == nodes[i]
        less == LessThan([r \in DOMAIN n.rows |->
                             Dot(NodeX(n)[r], n.decisionProjection, n.iIn)], n.paritionPoint2)
    IN  /\ \A l \in Children(i, "less") : nodes[l].rows = Mask(n.rows, less, TRUE)
        /\ \A g \in Children(i, "greater") : nodes[g].rows = Mask(n.rows, less, FALSE)

\* C21: a node whose projection bootstrap sample is degenerate (no selected
\* column varies in it, or fewer than two classes have a non-zero count in
\* it, or the single output column is all 0 or all 1 in it) is a Leaf when
\* bContinueProjBootDegenerate is off; when it is on, an Internal node takes
\* its projection from its own rows; in both cases the children hold rows
\* of the node itself.
C21_BootDegenerate ==
    \A i \in DOMAIN nodes :
        (Truthy(options.bProjBoot) /\ ~nodes[i].bLeaf /\ StatedDegenerate(i)) =>
            /\ options.bContinueProjBootDegenerate
            /\ ProjectionFromNode(nodes[i])
            /\ ChildrenFromNode(i)

\* what np.random gave to the call that built node i of the tree under
\* construction: the draws of the build are written down in order, the
\* rows of the tree first and then one entry for every node
DrawsOf(i) == tape[i + 1]

\* the projected columns the split search of node i went through: the
\* columns of UTrain that vary, in the order of the projection matrix
SearchedDirs(i) ==
    LET n    == nodes[i]
        proj == DrawsOf(i).proj
        iIn  == SubsampleFeatures(NodeX(n), options.lambda.n, DrawsOf(i).perm, n.fnum).iIn
        UAll == [d \in DOMAIN proj |->
                    [r \in DOMAIN n.rows |-> Dot(NodeX(n)[r], proj[d], iIn)]]
        keep == SortedSeq({d \in DOMAIN proj : Cardinality(Range(UAll[d])) > 1})
    IN  [j \in DOMAIN keep |-> [U |-> UAll[keep[j]], column |-> proj[keep[j]]]]

\* the gain of the cut after sorted position c along the projected column U
\* of node i, minus infinity for a forbidden cut
CutGain(i, U, c) ==
    IF c \in LeafSizeForbidden(Len(U), options.minPointsLeaf) THEN NegInf
    ELSE MetricGain(U, NodeY(nodes[i]), K, c)

Cuts(U) == 0..(Len(U) - 2)

BestCutGain(i, U) == SetMax({CutGain(i, U, c) : c \in Cuts(U)})

\* the cuts along U whose gain is the maximum gain along U
TiedCuts(i, U) == {c \in Cuts(U) : CutGain(i, U, c) = BestCutGain(i, U)}

Searched(i) == nodes[i].why = "search"

\* C22 as stated: along the chosen direction of a node split by the search,
\* the cut is one of the cuts whose gain is the maximum gain of the
\* direction: the first of them in sorted order under 'first', any of them
\* under 'rand'.
C22_CutByPolicy ==
    \A i \in DOMAIN nodes : Searched(i) =>
        LET U    == SearchedDirs(i)[DrawsOf(i).iDir].U
            tied == TiedCuts(i, U)
        IN  /\ DrawsOf(i).iSplit \in tied
            /\ options.dirIfEqual = "first" => DrawsOf(i).iSplit = SetMin(tied)

\* C22, corrected: under either policy the cut is one of the cuts whose gain
\* is the maximum gain of the direction, and the partition point of the node
\* is the one of that cut.
C22_CutAmongBest ==
    \A i \in DOMAIN nodes : Searched(i) =>
        LET U == SearchedDirs(i)[DrawsOf(i).iDir].U
        IN  /\ DrawsOf(i).iSplit \in TiedCuts(i, U)
            /\ nodes[i].paritionPoint2 = PartitionPoint2(U, DrawsOf(i).iSplit)

\* under 'first', a node split by the search at a cut that is not the first
\* of several cuts of maximum gain
C22_Witness ==
    /\ options.dirIfEqual = "first"
    /\ \E i \in DOMAIN nodes :
          /\ Searched(i)
          /\ LET U == SearchedDirs(i)[DrawsOf(i).iDir].U
             IN  DrawsOf(i).iSplit \in TiedCuts(i, U) \ {SetMin(TiedCuts(i, U))}

\* the best gain of every direction the split search of node i went through
DirGains(i) == [j \in DOMAIN SearchedDirs(i) |-> BestCutGain(i, SearchedDirs(i)[j].U)]

\* the directions whose best gain is the maximum over all directions
TiedDirs(i) ==
    {j \in DOMAIN DirGains(i) : DirGains(i)[j] = SetMax(Range(DirGains(i)))}

\* C23: the direction chosen for a node split by the search has a gain equal
\* to the maximum gain over the surviving directions; under 'first' it is
\* the lowest-index such direction, under 'rand' one of them; the cut, the
\* projection column and the partition point of the node are those of that
\* direction, and so are the rows of its children.
C23_DirectionByPolicy ==
    \A i \in DOMAIN nodes : Searched(i) =>
        LET iDir == DrawsOf(i).iDir
            dir  == SearchedDirs(i)[iDir]
        IN  /\ iDir \in TiedDirs(i)
            /\ options.dirIfEqual = "first" => iDir = SetMin(TiedDirs(i))
            /\ DrawsOf(i).iSplit \in TiedCuts(i, dir.U)
            /\ nodes[i].decisionProjection = dir.column
            /\ nodes[i].paritionPoint2 = PartitionPoint2(dir.U, DrawsOf(i).iSplit)
            /\ nodes[i].bestGain = DirGains(i)[iDir]
            /\ ChildrenFromNode(i)

\* a finished tree grown under 'first' with a node whose two directions
\* have the same best gain
C23_Witness ==
    /\ TreeFinished
    /\ options.dirIfEqual = "first"
    /\ \E i \in DOMAIN nodes :
          Searched(i) /\ TiedDirs(i) = {1, 2} /\ DrawsOf(i).iDir = 1

\* the cut after sorted position c along U is forbidden in the stated sense:
\* a child would hold fewer than minPointsLeaf rows, or the two projected
\* values around the cut do not differ
StatedForbidden(U, c) ==
    \/ c + 1 < options.minPointsLeaf
    \/ Len(U) - 1 - c < options.minPointsLeaf
    \/ ~(NpSort(U)[c + 2] > NpSort(U)[c + 1])

StatedGain(i, U, c) ==
    IF StatedForbidden(U, c) THEN NegInf ELSE MetricGain(U, NodeY(nodes[i]), K, c)

\* the call that built node i went through the split search
WentThroughSearch(i) == nodes[i].why \in {"search", "negativeGain"}

\* C24: in the split search of a node with N rows, for every minPointsLeaf
\* from 0 on, the cut at sorted index c is forbidden if and only if a child
\* would hold fewer than minPointsLeaf rows or the projected values around
\* the cut do not differ: the best gain the search finds is the best gain
\* over the cuts that are not forbidden in that sense, and the cut of a
\* node split by the search is not forbidden.
C24_ForbiddenCuts ==
    \A i \in DOMAIN nodes : WentThroughSearch(i) =>
        /\ nodes[i].bestGain =
              SetMax({StatedGain(i, SearchedDirs(i)[j].U, c)
                         : j \in DOMAIN SearchedDirs(i), c \in 0..(Len(nodes[i].rows) - 2)})
        /\ Searched(i) =>
              ~StatedForbidden(SearchedDirs(i)[DrawsOf(i).iDir].U, DrawsOf(i).iSplit)

\* genTree has set aside rows for the tree under construction
Bagged == Truthy(options.bBagTrees) \/ Len(iTrainThis) # N

\* the last tree genCCF has kept is the tree grown on iTrainThis
TreeKept == pc \in {"tree", "collect", "done"} /\ forest # <<>> /\ Len(forest) = nT

\* C25: a bagged tree is trained on floor(N * propTrain) rows drawn among
\* the N rows, without repetition unless bBagTrees is on; out-of-bag rows
\* are stored on a tree if and only if bBagTrees is on, and they are exactly
\* the rows not drawn for the tree: disjoint from the rows drawn and
\* covering all N rows together with them.
C25_OutOfBagRows ==
    /\ (pc = "grow" /\ Bagged) =>
          /\ Len(iTrainThis) = (N * options.propTrain.num) \div options.propTrain.den
          /\ Range(iTrainThis) \subseteq 1..N
          /\ ~Truthy(options.bBagTrees) => Cardinality(Range(iTrainThis)) = Len(iTrainThis)
          /\ nodes # <<>> => nodes[1].Npoints = Len(iTrainThis)
    /\ \A k \in DOMAIN forest : forest[k].bagged <=> Truthy(options.bBagTrees)
    /\ TreeKept =>
          LET tree == forest[Len(forest)]
          IN  IF tree.bagged
              THEN /\ tree.iOutOfBag \cap Range(iTrainThis) = {}
                   /\ tree.iOutOfBag \cup Range(iTrainThis) = 1..N
              ELSE tree.iOutOfBag = {}

\* a tree kept with out-of-bag rows after a draw that repeats a row, in a
\* build that trains on half of the rows
C25_Witness ==
    /\ TreeKept
    /\ forest[Len(forest)].bagged
    /\ forest[Len(forest)].iOutOfBag # {}
    /\ Cardinality(Range(iTrainThis)) < Len(iTrainThis)
    /\ Len(iTrainThis) < N

\* the build has ended with an out-of-bag error computed from its trees
Aggregated == pc = "done" /\ outOfBagError = "numeric"

\* the predictions stored for row r, tree by tree, 0 where the tree does not
\* hold the row out of bag
StoredFor(r, k) ==
    [t \in DOMAIN forest |->
        IF r \in forest[t].iOutOfBag THEN forest[t].predictsOutOfBag[r][k] ELSE 0]

HeldOutBy(r) == {t \in DOMAIN forest : r \in forest[t].iOutOfBag}

\* C26: the out-of-bag prediction of a row is the mean of the predictions
\* stored for it over exactly the trees that hold it out of bag, each tree
\* counted once (its sum is the sum of those predictions and its count the
\* number of those trees), and a row that no tree holds out of bag does not
\* enter outOfBagError.
C26_OutOfBagMean ==
    Aggregated =>
        \A r \in 1..N :
            /\ nOOb[r] = Cardinality(HeldOutBy(r))
            /\ \A k \in 1..K : cumOOb[r][k] = SeqSum(StoredFor(r, k))
            /\ r \in oobCounted <=> HeldOutBy(r) # {}

\* a build of NTrees trees with a row that every tree holds out of bag and a
\* row that no tree holds out of bag
C26_Witness ==
    /\ Aggregated
    /\ Len(forest) = NTrees
    /\ \E r \in 1..N : HeldOutBy(r) = DOMAIN forest
    /\ \E r \in 1..N : HeldOutBy(r) = {} /\ r \notin oobCounted

\* C27: the feature-group vector the right child of an Internal node is
\* called with is the one the node held after its own feature subsampling:
\* what the calls of the left subtree mask as not varying stays selectable
\* in the right subtree.
C27_RightChildSeesParentGroups ==
    \A i \in DOMAIN nodes : \A g \in Children(i, "greater") :
        nodes[g].fnum = nodes[i].fnumAfter

\* every call of growCCT, built or pending, below the root was handed fewer
\* rows than its caller holds, and at least one
FewerRowsThanCaller ==
    /\ \A j \in DOMAIN nodes : nodes[j].parent # 0 =>
          Len(nodes[j].rows) \in 1..(nodes[nodes[j].parent].Npoints - 1)
    /\ \A j \in DOMAIN stack : stack[j].parent # 0 =>
          Len(stack[j].rows) \in 1..(nodes[stack[j].parent].Npoints - 1)

\* no call is deeper than the number of rows of the root minus one
DepthWithinRows ==
    /\ \A j \in DOMAIN nodes : nodes[j].depth <= Len(iTrainThis) - 1
    /\ \A j \in DOMAIN stack : stack[j].depth <= Len(iTrainThis) - 1

\* the work left in the tree under construction: a pending call on n rows
\* can build at most 2n - 1 nodes
WorkLeft == SumOver([j \in DOMAIN stack |-> 2 * Len(stack[j].rows) - 1], DOMAIN stack)

\* a call of growCCT has built its node or raised
CallMade == pc = "grow" /\ stack # <<>> /\ (nodes' # nodes \/ pc' = "failed")

\* C28: growCCT terminates, with the maximum depth left unbounded as well:
\* every recursive call is handed fewer rows than its caller (on the
\* two-point path and in the split search), no call is deeper than N - 1
\* for a root of N rows, and every call leaves less work pending than there
\* was (or raises), so that a tree on N rows is grown in at most 2N - 1
\* calls.
C28_Terminates ==
    /\ [](FewerRowsThanCaller /\ DepthWithinRows /\ Len(nodes) + WorkLeft <= 2 * N - 1)
    /\ [][CallMade => (pc' = "failed" \/ WorkLeft' < WorkLeft)]_vars

\* a finished tree, grown without a depth limit, with a Leaf at depth 2
C28_Witness ==
    /\ TreeFinished
    /\ ~is_numeric(options.maxDepthSplit)
    /\ \E j \in DOMAIN nodes : nodes[j].bLeaf /\ nodes[j].depth = 2
    /\ \E i, j \in DOMAIN nodes : nodes[i].why = "twoPoint" /\ nodes[j].why = "search"

\* C29: with bagging and a pre-rotation (rotationForest, random or pca) the
\* rotation details R and muX are on the tree before its out-of-bag
\* predictions are computed: the prediction stored for a held-out row is
\* the one the tree gives when the row goes through the rotation the tree
\* was grown under.
C29_OutOfBagThroughRotation ==
    (TreeKept /\ forest[Len(forest)].bagged /\ options.treeRotation \in RotationKinds) =>
        LET tree == forest[Len(forest)]
        IN  /\ tree.rotDetails = rotation
            /\ \A r \in tree.iOutOfBag :
                   tree.predictsOutOfBag[r]
                       = predictFromCCT(tree.nodes, rotation, Take(Y, iTrainThis), X[r])

\* the place on the tape of the draw genTree took for tree k
TreeStart(k) == 1 + SeqSum([j \in 1..(k - 1) |-> 1 + Len(forest[j].nodes)])

\* the draws of tree k: entry 0 by genTree, entry i by the growCCT call that
\* made node i
SeedOf(k, i) == tape[TreeStart(k) + i]

\* the growCCT calls that made node j of tree 1 and of tree k were handed
\* the same rows and the same feature groups, so their draws are draws
\* from the same sets
SameCall(k, j) ==
    /\ forest[k].nodes[j].rows = forest[1].nodes[j].rows
    /\ forest[k].nodes[j].fnum = forest[1].nodes[j].fnum

\* trees 1 and k were given the same seeds up to the call that made node
\* j: the draws before that call are the same, and so is the draw of that
\* call where it is a draw from the same sets
SameSeeds(k, j) ==
    /\ \A i \in 0..(j - 1) : SeedOf(1, i) = SeedOf(k, i)
    /\ SameCall(k, j) => SeedOf(1, j) = SeedOf(k, j)

\* a recorded sequential build has returned its forest
SequentialBuilt == pc = "done" /\ run = 1 /\ call.record /\ ~call.do_parallel

\* C30, the sequential path: tree 1 is grown on the shared data as a task
\* of the parallel path is handed it; a later tree given the same seeds
\* has, node for node, the content of tree 1, whatever was built before it.
C30_TreeAlone ==
    SequentialBuilt =>
        \A k \in 2..Len(forest) :
            \A j \in 1..Len(forest[k].nodes) :
                (j <= Len(forest[1].nodes) /\ SameSeeds(k, j))
                    => Content(forest[k])[j] = Content(forest[1])[j]

\* C30, the parallel path: it returns a forest where the sequential path
\* does, with as many trees.
C30_ParallelBuilds ==
    (call.do_parallel /\ pc \in {"done", "failed"}) =>
        /\ pc = "done"
        /\ Len(forest) = call.nTrees

\* C30: with the same data, options and per-tree seeds the sequential and
\* the parallel path of genCCF give the same forest, tree by tree: the
\* parallel path gives a forest, and a tree of the sequential path is the
\* tree its seeds give on the shared data, independent of the trees built
\* before it.
C30_SamePaths == C30_ParallelBuilds /\ C30_TreeAlone

====
